---- MODULE Spec2Model ----
(***************************************************************************)
(* State-machine model of the TetraKlein local audit harness               *)
(* (examples/tetraklein-local/tests): the equivocation verifier, the epoch *)
(* ledger with its finality window, the finality audit runner and the      *)
(* signed replay/equivocation detector.                                    *)
(*                                                                         *)
(* Each component has its own specification (SpecVerifier, SpecLedger,     *)
(* SpecFinalityAudit, SpecSigned); the variables of the other components   *)
(* stay at their initial value.                                            *)
(***************************************************************************)
EXTENDS Integers, Sequences, FiniteSets, TLC

VARIABLES
    seen,       \* EquivocationVerifier.seen : (epoch, parent_root) -> (state_root, branch_name)
    ops,        \* EquivocationVerifier.ops
    vcall,      \* arguments of the latest observe call
    vret,       \* value returned by the latest observe call
    vlog,       \* every observe call so far, with seen before the call and the return value
    ledger,     \* EpochLedger: nodes (with their insertion order), final_root, verifier_ops
    lcall,      \* the latest EpochLedger call: method and arguments
    lret,       \* value returned by the latest EpochLedger call
    finalize_called,  \* history: the arguments finalize_up_to has been called with
    was_finalized,    \* history: the epochs whose node has been finalized at some time
    apc,        \* run_epoch_finality_audit / main: position ("idle" when not run)
    ae,         \* run_epoch_finality_audit: the loop variable e
    aresult,    \* run_epoch_finality_audit: the returned AuditResult
    araised,    \* main: the RuntimeError raised, "none" when it returns
    seen_frames,            \* signed audit: set of (epoch, state, signature)
    seen_epochs,            \* signed audit: epoch -> accepted state
    equivocation_detected,  \* signed audit
    replay_detected,        \* signed audit
    detection_epoch,        \* signed audit
    s_verifier_ops,         \* signed audit: verifier_ops
    s_epoch,                \* signed audit: the loop variable epoch
    s_raised,               \* signed audit: the RuntimeError raised, "none" while running
    s_last,                 \* the frame of the latest delivery and what became of it
    s_accepts,              \* history: how often each frame identity has been accepted
    s_rejects,              \* history: how often each frame identity was an equivocation
    engine_A,   \* folding audit: FoldingEngine (verifier_ops, max_residual)
    engine_B,   \* folding audit: FoldingEngine (verifier_ops, max_residual)
    state_A,    \* folding audit: FoldState of the honest sequence
    state_B,    \* folding audit: FoldState of the second sequence
    f_depth,    \* folding audit: the loop variable depth (0 before the first iteration)
    f_detected, \* folding audit: equivocation_detected
    f_detection_depth,  \* folding audit: detection_depth
    f_div,      \* history: the step at which witness_B differed, and by how much
    branch_A,   \* equivocation audit: BranchState of the honest branch
    branch_B,   \* equivocation audit: BranchState of the adversarial branch
    er_epoch,   \* equivocation audit: the loop variable epoch (0 before the loop)
    er_pc,      \* equivocation audit: "loop", "main" or "done"
    er_result,  \* equivocation audit: equivocation_detected, detection_epoch, rejected_branch
    er_raised,  \* equivocation audit: the RuntimeError main raised, "none" otherwise
    er_delta1,  \* history: the adversarial delta drawn in epoch 1, None before
    nodes,      \* gossip: node_id -> Node (q_node, state, inbox, history)
    g_epoch,    \* gossip: the loop variable epoch
    g_pc,       \* gossip: "idle", "place", "send", "receive" or "done"
    g_n,        \* gossip: send phase, the node whose turn it is
    g_k,        \* gossip: send phase, the position in its neighbour list
    g_equivocation_detected,  \* gossip: equivocation_detected
    g_equivocation_epoch,     \* gossip: equivocation_epoch
    g_verifier_ops,           \* gossip: verifier_ops
    g_log,      \* history: the messages applied so far, in the order of application
    g_sent,     \* history: the messages appended to an inbox so far
    s_inbox,    \* signed run: the list of (frame, delay) awaiting delivery
    signed_history,  \* signed run: epoch -> the honest frame of that epoch
    r_state,    \* signed run: the system state
    r_pc,       \* signed run: "idle", "loop", "end" or "done"
    r_count,    \* history: for every frame put in the inbox, how often it was admitted
    r_now,      \* history: the frames admitted in the last delivery phase
    buffer,     \* adversarial audit: AdversarialScheduler.buffer
    scheduled,  \* adversarial audit: the list returned by schedule()
    corrupted,  \* adversarial audit: the list returned by inject()
    agg,        \* adversarial audit: the Aggregator (state, verifier_ops, residuals)
    recovered_epoch,  \* adversarial audit: recovered_epoch of the processing loop
    adv_i,      \* adversarial audit: the loop index i of the processing loop
    adv_pc,     \* adversarial audit: "submit", "inject", "process", "end" or "done"
    adv_result, \* adversarial audit: the AuditResult, None before the run ends
    adv_full,   \* history: the list built by schedule() before its random drops
    adv_delivered,  \* history: the frames handed to Aggregator.process, in order
    nb_node,    \* neighbours: the slot passed to the neighbour function
    nb_dim,     \* neighbours: the dimension of the hypercube
    nb_result,  \* neighbours: the returned list, empty before the call
    f_pc,       \* folding run: "idle", "loop" or "done"
    f_result,   \* folding run: the AuditResult, None before the run ends
    f_raised,   \* folding run: main raised the NOT DETECTED failure
    g_first,    \* gossip: the verdict of an earlier run from the same seed, <<>> if none
    t_params,   \* temporal audit: the TemporalParams of the run
    sim,        \* temporal audit: the EpochSimulator
    logical_time,  \* temporal audit: logical_time of run_temporal_stress
    t_epoch,    \* temporal audit: the loop variable epoch
    t_f,        \* temporal audit: the loop variable f
    t_pc,       \* temporal audit: "idle", "loop" or "done"
    t_raised,   \* temporal audit: the message of the failed assertion, "none" if none
    t_dropped,  \* history: some frame was dropped
    t_reordered,  \* history: in some epoch the sort changed the order of the frames
    guardian,   \* XRFDSEGuardian (last_safe, fail_count)
    fd_last     \* the latest shunt call: its input, what was computed and returned

verifier_vars == <<seen, ops, vcall, vret, vlog>>
ledger_vars == <<ledger, lcall, lret, finalize_called, was_finalized>>
audit_vars == <<apc, ae, aresult, araised>>
detector_vars == <<seen_frames, seen_epochs, equivocation_detected, replay_detected,
                   detection_epoch>>
signed_vars == <<detector_vars, s_verifier_ops, s_epoch, s_raised, s_last, s_accepts, s_rejects>>
fold_vars == <<engine_A, engine_B, state_A, state_B, f_depth, f_detected,
               f_detection_depth, f_div>>
erun_vars == <<branch_A, branch_B, er_epoch, er_pc, er_result, er_raised, er_delta1>>
gossip_vars ==
    <<nodes, g_epoch, g_pc, g_n, g_k, g_equivocation_detected, g_equivocation_epoch,
      g_verifier_ops, g_log, g_sent>>
srun_vars == <<s_inbox, signed_history, r_state, r_pc, r_count, r_now>>
adv_vars ==
    <<buffer, scheduled, corrupted, agg, recovered_epoch, adv_i, adv_pc, adv_result,
      adv_full, adv_delivered>>
nb_vars == <<nb_node, nb_dim, nb_result>>
frun_vars == <<f_pc, f_result, f_raised>>
rerun_vars == <<g_first>>
temporal_vars ==
    <<t_params, sim, logical_time, t_epoch, t_f, t_pc, t_raised, t_dropped, t_reordered>>
fdse_vars == <<guardian, fd_last>>
vars ==
    <<verifier_vars, ledger_vars, audit_vars, signed_vars, fold_vars, erun_vars,
      gossip_vars, srun_vars, adv_vars, nb_vars, frun_vars, rerun_vars, temporal_vars, fdse_vars>>

\* What the calls on one component leave alone: the state of the other components.
not_verifier_vars == <<ledger_vars, audit_vars, signed_vars, fold_vars, erun_vars, gossip_vars, srun_vars, adv_vars, nb_vars, frun_vars, rerun_vars, temporal_vars, fdse_vars>>
not_ledger_vars == <<verifier_vars, audit_vars, signed_vars, fold_vars, erun_vars, gossip_vars, srun_vars, adv_vars, nb_vars, frun_vars, rerun_vars, temporal_vars, fdse_vars>>
not_audit_vars == <<verifier_vars, signed_vars, fold_vars, erun_vars, gossip_vars, srun_vars, adv_vars, nb_vars, frun_vars, rerun_vars, temporal_vars, fdse_vars>>
not_signed_vars ==
    <<verifier_vars, ledger_vars, audit_vars, fold_vars, erun_vars, gossip_vars,
      adv_vars, nb_vars, frun_vars, rerun_vars, temporal_vars, fdse_vars>>
not_detector_vars == <<not_signed_vars, srun_vars>>
not_fold_vars == <<verifier_vars, ledger_vars, audit_vars, signed_vars, erun_vars, gossip_vars, srun_vars, adv_vars, nb_vars, frun_vars, rerun_vars, temporal_vars, fdse_vars>>
not_erun_vars == <<ledger_vars, audit_vars, signed_vars, fold_vars, gossip_vars, srun_vars, adv_vars, nb_vars, frun_vars, rerun_vars, temporal_vars, fdse_vars>>
not_gossip_vars ==
    <<verifier_vars, ledger_vars, audit_vars, signed_vars, fold_vars, erun_vars,
      srun_vars, adv_vars, nb_vars, frun_vars, rerun_vars, temporal_vars, fdse_vars>>
not_adv_vars ==
    <<verifier_vars, ledger_vars, audit_vars, signed_vars, fold_vars, erun_vars,
      gossip_vars, srun_vars, nb_vars, frun_vars, rerun_vars, temporal_vars, fdse_vars>>
not_nb_vars ==
    <<verifier_vars, ledger_vars, audit_vars, signed_vars, fold_vars, erun_vars,
      gossip_vars, srun_vars, adv_vars, frun_vars, rerun_vars, temporal_vars, fdse_vars>>
not_frun_vars ==
    <<verifier_vars, ledger_vars, audit_vars, signed_vars, erun_vars, gossip_vars,
      srun_vars, adv_vars, nb_vars, rerun_vars, temporal_vars, fdse_vars>>
not_rerun_vars ==
    <<verifier_vars, ledger_vars, audit_vars, signed_vars, fold_vars, erun_vars,
      srun_vars, adv_vars, nb_vars, frun_vars, temporal_vars, fdse_vars>>
not_temporal_vars ==
    <<verifier_vars, ledger_vars, audit_vars, signed_vars, fold_vars, erun_vars,
      gossip_vars, srun_vars, adv_vars, nb_vars, frun_vars, rerun_vars, fdse_vars>>
not_fdse_vars ==
    <<verifier_vars, ledger_vars, audit_vars, signed_vars, fold_vars, erun_vars,
      gossip_vars, srun_vars, adv_vars, nb_vars, frun_vars, rerun_vars, temporal_vars>>

\* Python's None in an Optional[int] or Optional[str] position.
None == -1

\* dict assignment d[k] = v
Put(d, k, v) == [x \in (DOMAIN d) \cup {k} |-> IF x = k THEN v ELSE d[x]]

\* the empty dict {}
EmptyDict == [x \in {} |-> None]

(***************************************************************************)
(* Equivocation verifier (tklocal_equivocation_audit.py)                   *)
(***************************************************************************)

\* Bounds of the verifier model.
MaxObs == 3             \* number of observe calls in a behaviour
MaxStateRoot == 2       \* state roots 1..MaxStateRoot
VEpochs == {0, 1}       \* epochs carried by the commitments
ParentRoots == {0, 1}   \* parent roots
BranchNames == {"Branch_A", "Branch_B"}

\* EpochCommitment(epoch, parent_root, state_root)
EpochCommitment(epoch, parent_root, state_root) ==
    [epoch |-> epoch, parent_root |-> parent_root, state_root |-> state_root]

Commitments ==
    { EpochCommitment(e, p, r) : e \in VEpochs, p \in ParentRoots, r \in 1..MaxStateRoot }

VKey(c) == <<c.epoch, c.parent_root>>

\* Mutant: the conflict test compares the branch names instead of the roots.
M_ConflictByBranch(s, c, branch_name) ==
    /\ VKey(c) \in DOMAIN s
    /\ s[VKey(c)][2] # branch_name

\* observe, lines 104-106: the key is recorded with a different state root.
Conflict(s, c, branch_name) ==
    /\ VKey(c) \in DOMAIN s
    /\ s[VKey(c)][1] # c.state_root

\* Mutant: the conflicting commitment is recorded over the original one.
M_SeenAfterOverwrite(s, c, branch_name) ==
    Put(s, VKey(c), <<c.state_root, branch_name>>)

\* observe, lines 104-113: the seen map after the call.
SeenAfter(s, c, branch_name) ==
    IF Conflict(s, c, branch_name)
    THEN s
    ELSE Put(s, VKey(c), <<c.state_root, branch_name>>)

\* Mutant: the reported offender is the branch recorded first.
M_ObserveReturnRecorded(s, c, branch_name) ==
    IF Conflict(s, c, branch_name)
    THEN <<TRUE, c.epoch, s[VKey(c)][2]>>
    ELSE <<FALSE, None, None>>

\* observe, lines 110 and 113: the returned triple.
ObserveReturn(s, c, branch_name) ==
    IF Conflict(s, c, branch_name)
    THEN <<TRUE, c.epoch, branch_name>>
    ELSE <<FALSE, None, None>>

\* EquivocationVerifier.observe(c, branch_name)
observe(c, branch_name) ==
    /\ ops < MaxObs
    /\ ops' = ops + 1
    /\ seen' = SeenAfter(seen, c, branch_name)
    /\ vret' = ObserveReturn(seen, c, branch_name)
    /\ vcall' = [c |-> c, branch_name |-> branch_name]
    /\ vlog' = Append(vlog, [c |-> c, branch_name |-> branch_name,
                             before |-> seen,
                             ret |-> ObserveReturn(seen, c, branch_name)])
    /\ UNCHANGED not_verifier_vars

\* EquivocationVerifier.__init__
VerifierInit ==
    /\ seen = EmptyDict
    /\ ops = 0
    /\ vcall = None
    /\ vret = None
    /\ vlog = <<>>

VerifierNext == \E c \in Commitments, b \in BranchNames : observe(c, b)

(***************************************************************************)
(* Epoch ledger (tklocal_epoch_finality_audit.py)                          *)
(***************************************************************************)

\* Bounds of the ledger model.
MaxLEpoch == 1          \* epochs 0..MaxLEpoch
MaxLedgerOps == 3       \* number of counted calls (add_epoch, try_late_injection)

LEpochs == 0..MaxLEpoch

\* hash((epoch, parent)): an injective encoding of the pair (parent may be None).
H(epoch, parent) == (epoch + 1) * 1000 + (parent + 1)

\* EpochNode(epoch, parent, root, finalized=False)
EpochNode(epoch, parent, root) ==
    [epoch |-> epoch, parent |-> parent, root |-> root, finalized |-> FALSE]

\* EpochLedger.__init__; order is the insertion order of the keys of nodes.
NewLedger ==
    [nodes |-> EmptyDict, order |-> <<>>, final_root |-> None, verifier_ops |-> 0]

\* self.nodes[epoch] = node: a new key goes last, a present key keeps its place.
SetNode(L, epoch, node) ==
    [L EXCEPT !.nodes = Put(L.nodes, epoch, node),
              !.order = IF epoch \in DOMAIN L.nodes THEN L.order ELSE Append(L.order, epoch)]

\* EpochLedger.add_epoch: the ledger after the call.
AddEpoch(L, epoch, parent) ==
    SetNode([L EXCEPT !.verifier_ops = L.verifier_ops + 1],
            epoch, EpochNode(epoch, parent, H(epoch, parent)))

\* The nodes visited by the loop of finalize_up_to that pass its test, in visit order.
Finalizable(L, epoch) == SelectSeq(L.order, LAMBDA e : e <= epoch)

\* Mutant: finalize_up_to writes the flag of every node, clearing it above epoch.
M_FinalizeUpToClears(L, epoch) ==
    LET hit == SelectSeq(L.order, LAMBDA e : e <= epoch) IN
    [L EXCEPT !.nodes = [e \in DOMAIN L.nodes |->
                            [L.nodes[e] EXCEPT !.finalized = (e <= epoch)]],
              !.final_root = IF hit = <<>> THEN L.final_root
                             ELSE L.nodes[hit[Len(hit)]].root]

\* Mutant: finalize_up_to counts as a verifier operation.
M_FinalizeUpToCounted(L, epoch) ==
    LET hit == SelectSeq(L.order, LAMBDA e : e <= epoch) IN
    [L EXCEPT !.nodes = [e \in DOMAIN L.nodes |->
                            IF e <= epoch THEN [L.nodes[e] EXCEPT !.finalized = TRUE]
                                          ELSE L.nodes[e]],
              !.final_root = IF hit = <<>> THEN L.final_root
                             ELSE L.nodes[hit[Len(hit)]].root,
              !.verifier_ops = L.verifier_ops + 1]

\* Mutant: the loop test is e < epoch.
M_FinalizeUpToStrict(L, epoch) ==
    LET hit == SelectSeq(L.order, LAMBDA e : e < epoch) IN
    [L EXCEPT !.nodes = [e \in DOMAIN L.nodes |->
                            IF e < epoch THEN [L.nodes[e] EXCEPT !.finalized = TRUE]
                                         ELSE L.nodes[e]],
              !.final_root = IF hit = <<>> THEN L.final_root
                             ELSE L.nodes[hit[Len(hit)]].root]

\* EpochLedger.finalize_up_to: the ledger after the call.
FinalizeUpTo(L, epoch) ==
    LET hit == Finalizable(L, epoch) IN
    [L EXCEPT !.nodes = [e \in DOMAIN L.nodes |->
                            IF e <= epoch THEN [L.nodes[e] EXCEPT !.finalized = TRUE]
                                          ELSE L.nodes[e]],
              !.final_root = IF hit = <<>> THEN L.final_root
                             ELSE L.nodes[hit[Len(hit)]].root]

\* Mutant: the injection is rejected only when the parent is absent.
M_InjectionRejectedAbsent(L, parent) ==
    parent \notin DOMAIN L.nodes

\* try_late_injection, line 123: the parent is present and finalized.
InjectionRejected(L, parent) ==
    /\ parent \in DOMAIN L.nodes
    /\ L.nodes[parent].finalized

\* EpochLedger.try_late_injection: the ledger after the call.
TryLateInjection(L, epoch, parent) ==
    LET L1 == [L EXCEPT !.verifier_ops = L.verifier_ops + 1] IN
    IF InjectionRejected(L, parent)
    THEN L1
    ELSE SetNode(L1, epoch, EpochNode(epoch, parent, H(epoch, parent)))

\* EpochLedger.try_late_injection: the returned flag.
TryLateInjectionReturn(L, parent) == ~InjectionRejected(L, parent)

FinalizedEpochs(L) == { e \in DOMAIN L.nodes : L.nodes[e].finalized }

add_epoch(epoch, parent) ==
    /\ ledger.verifier_ops < MaxLedgerOps
    /\ ledger' = AddEpoch(ledger, epoch, parent)
    /\ lcall' = [op |-> "add_epoch", epoch |-> epoch, parent |-> parent]
    /\ lret' = H(epoch, parent)
    /\ was_finalized' = was_finalized \cup FinalizedEpochs(ledger')
    /\ UNCHANGED finalize_called
    /\ UNCHANGED not_ledger_vars

finalize_up_to(epoch) ==
    /\ ledger' = FinalizeUpTo(ledger, epoch)
    /\ lcall' = [op |-> "finalize_up_to", epoch |-> epoch, parent |-> None]
    /\ lret' = None
    /\ finalize_called' = finalize_called \cup {epoch}
    /\ was_finalized' = was_finalized \cup FinalizedEpochs(ledger')
    /\ UNCHANGED not_ledger_vars

try_late_injection(epoch, parent) ==
    /\ ledger.verifier_ops < MaxLedgerOps
    /\ ledger' = TryLateInjection(ledger, epoch, parent)
    /\ lcall' = [op |-> "try_late_injection", epoch |-> epoch, parent |-> parent]
    /\ lret' = TryLateInjectionReturn(ledger, parent)
    /\ was_finalized' = was_finalized \cup FinalizedEpochs(ledger')
    /\ UNCHANGED finalize_called
    /\ UNCHANGED not_ledger_vars

LedgerInit ==
    /\ ledger = NewLedger
    /\ lcall = [op |-> "init", epoch |-> None, parent |-> None]
    /\ lret = None
    /\ finalize_called = {}
    /\ was_finalized = {}

LedgerNext ==
    \/ \E e \in LEpochs, p \in LEpochs \cup {None} : add_epoch(e, p)
    \/ \E e \in LEpochs : finalize_up_to(e)
    \/ \E e \in LEpochs, p \in LEpochs : try_late_injection(e, p)

(***************************************************************************)
(* Finality audit runner (tklocal_epoch_finality_audit.py)                 *)
(***************************************************************************)

MAX_EPOCHS == 128
FINALITY_WINDOW == 8
ADVERSARIAL_DELAY == 32

\* Mutant: the build finalizes one epoch more than the window allows.
M_BuildIterationEager(L, e) ==
    LET L1 == AddEpoch(L, e, IF e > 0 THEN e - 1 ELSE None) IN
    IF e >= FINALITY_WINDOW THEN FinalizeUpTo(L1, e - FINALITY_WINDOW + 1) ELSE L1

\* run_epoch_finality_audit, lines 139-144: one iteration of the honest build.
BuildIteration(L, e) ==
    LET L1 == AddEpoch(L, e, IF e > 0 THEN e - 1 ELSE None) IN
    IF e >= FINALITY_WINDOW THEN FinalizeUpTo(L1, e - FINALITY_WINDOW) ELSE L1

\* AuditResult(...), lines 157-164 (runtime left out).
AuditResult(accepted, final_root, delayed_epoch, target_parent, L) ==
    [safety_ok |-> ~accepted,
     final_root |-> final_root,
     detection_epoch |-> IF ~accepted THEN delayed_epoch ELSE None,
     rejected_parent |-> IF ~accepted THEN target_parent ELSE None,
     verifier_ops |-> L.verifier_ops]

\* for e in range(MAX_EPOCHS): add_epoch, then finalize_up_to once e >= FINALITY_WINDOW
AuditBuildStep ==
    /\ apc = "build"
    /\ ae < MAX_EPOCHS
    /\ ledger' = BuildIteration(ledger, ae)
    /\ lcall' = IF ae >= FINALITY_WINDOW
                THEN [op |-> "finalize_up_to", epoch |-> ae - FINALITY_WINDOW, parent |-> None]
                ELSE [op |-> "add_epoch", epoch |-> ae, parent |-> IF ae > 0 THEN ae - 1 ELSE None]
    /\ lret' = IF ae >= FINALITY_WINDOW THEN None ELSE H(ae, IF ae > 0 THEN ae - 1 ELSE None)
    /\ finalize_called' = IF ae >= FINALITY_WINDOW
                          THEN finalize_called \cup {ae - FINALITY_WINDOW}
                          ELSE finalize_called
    /\ was_finalized' = was_finalized \cup FinalizedEpochs(ledger')
    /\ ae' = ae + 1
    /\ apc' = IF ae + 1 < MAX_EPOCHS THEN "build" ELSE "inject"
    /\ UNCHANGED <<aresult, araised, not_audit_vars>>

\* lines 146-164: the delayed injection against a random finalized parent.
AuditInject ==
    /\ apc = "inject"
    /\ \E target_parent \in 0..(MAX_EPOCHS - FINALITY_WINDOW - 1) :
          LET delayed_epoch == MAX_EPOCHS + ADVERSARIAL_DELAY
              accepted == TryLateInjectionReturn(ledger, target_parent)
          IN /\ ledger' = TryLateInjection(ledger, delayed_epoch, target_parent)
             /\ lcall' = [op |-> "try_late_injection", epoch |-> delayed_epoch,
                          parent |-> target_parent]
             /\ lret' = accepted
             /\ aresult' = AuditResult(accepted, ledger.final_root, delayed_epoch,
                                       target_parent, ledger')
    /\ was_finalized' = was_finalized \cup FinalizedEpochs(ledger')
    /\ apc' = "main"
    /\ UNCHANGED <<ae, araised, finalize_called, not_audit_vars>>

\* main, lines 195-196: the hard safety gate.
AuditMain ==
    /\ apc = "main"
    /\ araised' = IF ~aresult.safety_ok THEN "FINALITY VIOLATION DETECTED" ELSE "none"
    /\ apc' = "done"
    /\ UNCHANGED <<ae, aresult, ledger_vars, not_audit_vars>>

\* The audit is not running.
AuditIdle ==
    /\ apc = "idle"
    /\ ae = 0
    /\ aresult = None
    /\ araised = "none"

\* main has been entered: run_epoch_finality_audit starts with an empty ledger.
AuditInit ==
    /\ apc = "build"
    /\ ae = 0
    /\ aresult = None
    /\ araised = "none"

AuditNext == AuditBuildStep \/ AuditInject \/ AuditMain

(***************************************************************************)
(* Signed replay / equivocation detector                                   *)
(* (tklocal_signed_equivocation_replay_audit.py, delivery phase)           *)
(***************************************************************************)

\* Bounds of the detector model.
MaxAdmit == 3           \* number of frames delivered at zero delay in a behaviour
MaxSEpoch == 1          \* the loop variable epoch runs over 0..MaxSEpoch

\* Frame contents. A state is a fixed-point number; Quantum consecutive states
\* print to the same twelve decimals.
FrameEpochs == {0, 1}
FrameStates == {0, 1, 2}
Nonces == {0, 1}
Quantum == 2

\* canonical_message(epoch, state) = f"{epoch}:{state:.12f}".encode()
canonical_message(epoch, state) == <<epoch, state \div Quantum>>

\* signer.sign(msg): ML-DSA signing is randomized, nonce stands for the randomness.
Sign(msg, nonce) == [msg |-> msg, nonce |-> nonce]

\* verifier.verify(msg, signature, pubkey)
Verify(msg, signature) == signature.msg = msg

Signatures ==
    { Sign(canonical_message(e, s), n) : e \in FrameEpochs, s \in FrameStates, n \in Nonces }

\* SignedFrame(epoch, state, signature)
SignedFrame(epoch, state, signature) ==
    [epoch |-> epoch, state |-> state, signature |-> signature]

\* Every frame that can reach the delivery phase, validly signed or not.
Frames ==
    { SignedFrame(e, s, g) : e \in FrameEpochs, s \in FrameStates, g \in Signatures }

\* frame_id = (f.epoch, f.state, f.signature)
FrameId(f) == <<f.epoch, f.state, f.signature>>

\* line 156: the signature verifies over the canonical message of the frame.
SignatureOK(f) == Verify(canonical_message(f.epoch, f.state), f.signature)

\* Mutant: the replay test is missing.
M_IsReplayNever(frames, f) == FALSE

\* line 162: frame_id in seen_frames
IsReplay(frames, f) == FrameId(f) \in frames

\* Mutant: the equivocation test is f.epoch in seen_epochs and the states are equal.
M_IsEquivocationSame(epochs, f) ==
    /\ f.epoch \in DOMAIN epochs
    /\ epochs[f.epoch] = f.state

\* line 167: f.epoch in seen_epochs and seen_epochs[f.epoch] != f.state
IsEquivocation(epochs, f) ==
    /\ f.epoch \in DOMAIN epochs
    /\ epochs[f.epoch] # f.state

\* Mutant: the signature is verified after the replay and equivocation tests.
M_OutcomeSignatureLast(frames, epochs, f) ==
    IF IsReplay(frames, f) THEN "replay"
    ELSE IF IsEquivocation(epochs, f) THEN "equivocation"
    ELSE IF ~SignatureOK(f) THEN "signature_failure"
    ELSE "accepted"

\* lines 152-174: what becomes of a frame delivered at zero delay.
Outcome(frames, epochs, f) ==
    IF ~SignatureOK(f) THEN "signature_failure"
    ELSE IF IsReplay(frames, f) THEN "replay"
    ELSE IF IsEquivocation(epochs, f) THEN "equivocation"
    ELSE "accepted"

\* Mutant: the identity of every delivered frame is remembered.
M_RememberedAlways(frames, f, o) == frames \cup {FrameId(f)}

\* line 174: seen_frames.add(frame_id), reached by an accepted frame only
Remembered(frames, f, o) ==
    IF o = "accepted" THEN frames \cup {FrameId(f)} ELSE frames

\* One iteration of the delivery loop for a frame whose delay is 0 (lines 152-174).
Deliver(f) ==
    /\ s_raised = "none"
    /\ s_verifier_ops < MaxAdmit
    /\ s_verifier_ops' = s_verifier_ops + 1
    /\ LET o == Outcome(seen_frames, seen_epochs, f) IN
       /\ s_last' = [frame |-> f, outcome |-> o]
       /\ s_raised' = IF o = "signature_failure"
                      THEN "SIGNATURE VERIFICATION FAILURE" ELSE "none"
       /\ replay_detected' = IF o = "replay" THEN TRUE ELSE replay_detected
       /\ equivocation_detected' = IF o = "equivocation" THEN TRUE ELSE equivocation_detected
       /\ detection_epoch' = IF o = "equivocation" THEN s_epoch ELSE detection_epoch
       /\ seen_frames' = Remembered(seen_frames, f, o)
       /\ seen_epochs' = IF o = "accepted" THEN Put(seen_epochs, f.epoch, f.state)
                         ELSE seen_epochs
       /\ s_accepts' = IF o = "accepted"
                       THEN Put(s_accepts, FrameId(f),
                                IF FrameId(f) \in DOMAIN s_accepts
                                THEN s_accepts[FrameId(f)] + 1 ELSE 1)
                       ELSE s_accepts
       /\ s_rejects' = IF o = "equivocation"
                       THEN Put(s_rejects, FrameId(f),
                                IF FrameId(f) \in DOMAIN s_rejects
                                THEN s_rejects[FrameId(f)] + 1 ELSE 1)
                       ELSE s_rejects
    /\ UNCHANGED <<s_epoch, not_detector_vars>>

\* for epoch in range(EPOCHS): the loop moves on to the next epoch.
NextEpoch ==
    /\ s_raised = "none"
    /\ s_epoch < MaxSEpoch
    /\ s_epoch' = s_epoch + 1
    /\ UNCHANGED <<detector_vars, s_verifier_ops, s_raised, s_last, s_accepts,
                   s_rejects, not_detector_vars>>

\* lines 94-112: the tracking state at the start of the run.
SignedInit ==
    /\ seen_frames = {}
    /\ seen_epochs = EmptyDict
    /\ equivocation_detected = FALSE
    /\ replay_detected = FALSE
    /\ detection_epoch = None
    /\ s_verifier_ops = 0
    /\ s_epoch = 0
    /\ s_raised = "none"
    /\ s_last = [frame |-> None, outcome |-> "none"]
    /\ s_accepts = EmptyDict
    /\ s_rejects = EmptyDict

SignedNext ==
    \/ \E f \in Frames : Deliver(f)
    \/ NextEpoch

(***************************************************************************)
(* Folding engine and divergence comparator                                *)
(* (tklocal_ivc_folding_equivocation_audit.py)                             *)
(***************************************************************************)

\* Bound of the folding model.
MaxFoldDepth == 3       \* iterations of the fold loop in a behaviour

\* Floats are exact dyadic rationals n / 2^e, kept in lowest terms. Witnesses and
\* the residual bound are whole numbers of one unit, which stands for 5e-7, so
\* that RESIDUAL_BOUND = 1e-6 is two units.
RESIDUAL_BOUND == 2
FoldWitnesses == {-3, 0, 3}             \* honest witnesses, in units
FoldDeltas == (-5..5) \ {0}             \* what witness_B may add at one step

RECURSIVE Pow2(_)
Pow2(k) == IF k = 0 THEN 1 ELSE 2 * Pow2(k - 1)

RECURSIVE QNorm(_)
QNorm(q) ==
    IF q.e > 0 /\ q.n % 2 = 0 THEN QNorm([n |-> q.n \div 2, e |-> q.e - 1]) ELSE q

\* The float of a whole number of units.
QInt(i) == [n |-> i, e |-> 0]

\* 0.5 * a + 0.5 * b
QHalfSum(a, b) ==
    QNorm([n |-> a.n * Pow2(b.e) + b.n * Pow2(a.e), e |-> a.e + b.e + 1])

\* a - b
QSub(a, b) == QNorm([n |-> a.n * Pow2(b.e) - b.n * Pow2(a.e), e |-> a.e + b.e])

\* abs(a)
QAbs(a) == [n |-> IF a.n < 0 THEN 0 - a.n ELSE a.n, e |-> a.e]

\* a > b
QGreater(a, b) == a.n * Pow2(b.e) > b.n * Pow2(a.e)

\* max(a, b)
QMax(a, b) == IF QGreater(b, a) THEN b ELSE a

\* FoldState(accumulator, residual)
FoldState(accumulator, residual) == [accumulator |-> accumulator, residual |-> residual]

\* FoldingEngine.__init__
NewFoldingEngine == [verifier_ops |-> 0, max_residual |-> QInt(0)]

\* fold, lines 107-108 and 112-115: the returned FoldState.
FoldReturn(prev, witness) ==
    LET new_acc == QHalfSum(prev.accumulator, witness) IN
    FoldState(new_acc, QAbs(QSub(new_acc, prev.accumulator)))

\* Mutant: a fold whose residual is zero is not counted.
M_FoldEngineSkipZero(engine, prev, witness) ==
    [verifier_ops |-> IF FoldReturn(prev, witness).residual.n = 0
                      THEN engine.verifier_ops ELSE engine.verifier_ops + 1,
     max_residual |-> QMax(engine.max_residual, FoldReturn(prev, witness).residual)]

\* fold, lines 105 and 110: the engine after the call.
FoldEngine(engine, prev, witness) ==
    [verifier_ops |-> engine.verifier_ops + 1,
     max_residual |-> QMax(engine.max_residual, FoldReturn(prev, witness).residual)]

\* Mutant: the comparator needs twice the bound.
M_DivergedDoubleBound(sA, sB) ==
    QGreater(QAbs(QSub(sA.accumulator, sB.accumulator)), QInt(2 * RESIDUAL_BOUND))

\* Mutant: the comparator sets A's accumulator against B's residual.
M_DivergedResidual(sA, sB) ==
    QGreater(QAbs(QSub(sA.accumulator, sB.residual)), QInt(RESIDUAL_BOUND))

\* line 148: abs(state_A.accumulator - state_B.accumulator) > RESIDUAL_BOUND
Diverged(sA, sB) ==
    QGreater(QAbs(QSub(sA.accumulator, sB.accumulator)), QInt(RESIDUAL_BOUND))

\* One iteration of the fold loop, lines 135-151: both engines fold, witness_B
\* being witness_A + delta; delta is not zero in one iteration at most. The loop
\* ends at the first detection (break).
FoldIteration(witness_A, delta) ==
    /\ ~f_detected
    /\ f_depth < MaxFoldDepth
    /\ delta # 0 => f_div.depth = None
    /\ LET depth == f_depth + 1
           witness_B == witness_A + delta
           sA == FoldReturn(state_A, QInt(witness_A))
           sB == FoldReturn(state_B, QInt(witness_B))
       IN /\ f_depth' = depth
          /\ engine_A' = FoldEngine(engine_A, state_A, QInt(witness_A))
          /\ engine_B' = FoldEngine(engine_B, state_B, QInt(witness_B))
          /\ state_A' = sA
          /\ state_B' = sB
          /\ f_detected' = Diverged(sA, sB)
          /\ f_detection_depth' = IF Diverged(sA, sB) THEN depth ELSE f_detection_depth
          /\ f_div' = IF delta # 0 THEN [depth |-> depth, delta |-> delta] ELSE f_div
    /\ UNCHANGED not_fold_vars

\* lines 125-133: two fresh engines, the shared initial accumulator.
FoldInit ==
    /\ engine_A = NewFoldingEngine
    /\ engine_B = NewFoldingEngine
    /\ state_A = FoldState(QInt(0), QInt(0))
    /\ state_B = FoldState(QInt(0), QInt(0))
    /\ f_depth = 0
    /\ f_detected = FALSE
    /\ f_detection_depth = -1
    /\ f_div = [depth |-> None, delta |-> 0]

FoldNext == \E w \in FoldWitnesses, d \in FoldDeltas \cup {0} : FoldIteration(w, d)

(***************************************************************************)
(* Equivocation audit runner (tklocal_equivocation_audit.py)               *)
(***************************************************************************)

\* MAX_EPOCHS of tklocal_equivocation_audit.py
EQ_MAX_EPOCHS == 64

\* State values are whole numbers of 1e-9; a delta is a whole number of 1e-8,
\* so that 0.1 * delta is that many 1e-9.
HonestDelta == 50000000
\* Draws of random.uniform(-1.0, 1.0): the ends of the range, zero, the honest
\* delta, two values within 5e-9 of it and values near by.
AdversarialDeltas ==
    {-100000000, 0, 25000000, 49999996, 50000000, 50000004, 50000006, 100000000}

\* round(value, 8), the value being a whole number of 1e-9 and the result of 1e-8
Round8(value) == (value + 5) \div 10

\* Mutant: the state value is left out of the commitment.
M_CommitNoValue(epoch, parent, value) == <<epoch, parent>>

\* commit(epoch, parent, value) = hash((epoch, parent, round(value, 8))); the hash
\* is taken to be free of collisions.
commit(epoch, parent, value) == <<epoch, parent, Round8(value)>>

\* BranchState(name, state_value, current_root, history)
BranchState(name, state_value, current_root, history) ==
    [name |-> name, state_value |-> state_value, current_root |-> current_root,
     history |-> history]

\* forced_parent = None
NoForcedParent == <<>>

\* evolve_branch, line 125: CONTRACTIVITY * state_value + (1 - CONTRACTIVITY) * delta,
\* with 0.9 * s computed as s - s / 10.
Contract(state_value, delta) == (state_value - (state_value \div 10)) + delta

\* evolve_branch(branch, epoch, forced_parent, adversarial), delta already drawn.
evolve_branch(branch, epoch, forced_parent, delta) ==
    LET new_state == Contract(branch.state_value, delta)
        parent == IF forced_parent # NoForcedParent THEN forced_parent
                  ELSE branch.current_root
        new_root == commit(epoch, parent, new_state)
    IN BranchState(branch.name, new_state, new_root,
                   Append(branch.history, EpochCommitment(epoch, parent, new_root)))

Last(s) == s[Len(s)]

\* The verifier after observe(c, branch_name), with the returned triple.
Observed(V, c, branch_name) ==
    [seen |-> SeenAfter(V.seen, c, branch_name),
     ops |-> V.ops + 1,
     vcall |-> [c |-> c, branch_name |-> branch_name],
     vret |-> ObserveReturn(V.seen, c, branch_name)]

\* One iteration of the epoch loop, lines 151-170: both branches evolve, both
\* commitments are submitted in the order A, B, and the loop ends at the first
\* detection (break).  The call log vlog, kept for the claims about single
\* observe calls, is not extended by the run.
EquivocationEpoch(delta) ==
    /\ er_pc = "loop"
    /\ LET epoch == er_epoch + 1
           bA == evolve_branch(branch_A, epoch, NoForcedParent, HonestDelta)
           bB == evolve_branch(branch_B, epoch, Last(bA.history).parent_root, delta)
           V0 == [seen |-> seen, ops |-> ops, vcall |-> vcall, vret |-> vret]
           V1 == Observed(V0, Last(bA.history), bA.name)
           V2 == IF V1.vret[1] THEN V1 ELSE Observed(V1, Last(bB.history), bB.name)
       IN /\ branch_A' = bA
          /\ branch_B' = bB
          /\ er_epoch' = epoch
          /\ er_delta1' = IF epoch = 1 THEN delta ELSE er_delta1
          /\ seen' = V2.seen
          /\ ops' = V2.ops
          /\ vcall' = V2.vcall
          /\ vret' = V2.vret
          /\ vlog' = vlog
          /\ er_result' = IF V2.vret[1]
                          THEN [equivocation_detected |-> TRUE,
                                detection_epoch |-> V2.vret[2],
                                rejected_branch |-> V2.vret[3]]
                          ELSE er_result
          /\ er_pc' = IF V2.vret[1] \/ epoch = EQ_MAX_EPOCHS THEN "main" ELSE "loop"
    /\ UNCHANGED <<er_raised, not_erun_vars>>

\* main, lines 209-210: the hard safety gate.
EquivocationMain ==
    /\ er_pc = "main"
    /\ er_raised' = IF ~er_result.equivocation_detected
                    THEN "EQUIVOCATION NOT DETECTED" ELSE "none"
    /\ er_pc' = "done"
    /\ UNCHANGED <<branch_A, branch_B, er_epoch, er_result, er_delta1,
                   verifier_vars, not_erun_vars>>

\* run_equivocation_audit, lines 140-149: genesis, the two branches, no detection.
EquivocationRunInit ==
    /\ branch_A = BranchState("Branch_A", 0, commit(0, 0, 0), <<>>)
    /\ branch_B = BranchState("Branch_B", 0, commit(0, 0, 0), <<>>)
    /\ er_epoch = 0
    /\ er_pc = "loop"
    /\ er_result = [equivocation_detected |-> FALSE, detection_epoch |-> None,
                    rejected_branch |-> None]
    /\ er_raised = "none"
    /\ er_delta1 = None

EquivocationRunNext ==
    \/ \E delta \in AdversarialDeltas : EquivocationEpoch(delta)
    \/ EquivocationMain

(***************************************************************************)
(* Gossip simulation (tklocal_mega_coupled_stress_audit.py)                *)
(***************************************************************************)

\* GOSSIP_STEPS, scaled down
MaxGossipSteps == 3
\* EQUIVOCATION_DELAY, the round of the injection, scaled down
InjectRound == 1
\* range(NODE_COUNT), scaled down
GossipNodes == {0, 1}
\* range(Q_DIM), scaled down: the coordinates of the hypercube, in order
QCoords == <<0>>
\* random.randint(0, MAX_DELAY), scaled down
GossipDelays == {0, 1}
IVC_DEPTH == 96

\* States and values are whole numbers of 1e-4.  The state 0.5 ** IVC_DEPTH that
\* the local recursion leaves is below one unit.
StateAfterIVC == 0
\* n.state + 0.5
ConflictOffset == 5000
\* DTC_ALPHA, in hundredths
DTC_ALPHA == 85

\* range(Q_NODES)
QSlots == 0 .. (Pow2(Len(QCoords)) - 1)

\* n ^ (1 << i)
M_FlipBitSets(n, i) ==
    IF (n \div Pow2(i)) % 2 = 0 THEN n + Pow2(i) ELSE n
FlipBit(n, i) ==
    IF (n \div Pow2(i)) % 2 = 0 THEN n + Pow2(i) ELSE n - Pow2(i)

\* neighbors_q6(n)
neighbors_q6(n) == [k \in 1 .. Len(QCoords) |-> FlipBit(n, QCoords[k])]

\* Node(node_id, ipv6, q_node, state, inbox, history); the address is left out.
Node(node_id, q_node, state, inbox, history) ==
    [node_id |-> node_id, q_node |-> q_node, state |-> state, inbox |-> inbox,
     history |-> history]

\* An inbox entry (sender, value, delay); sent and delay0 are history fields: the
\* round in which the entry was appended and the delay it was appended with.
Message(sender, value, delay, sent) ==
    [sender |-> sender, value |-> value, delay |-> delay, sent |-> sent,
     delay0 |-> delay]

\* Mutant: a flagged value is compared with nothing, every delivery is flagged.
M_FlaggedAlways(history, sender, value) == TRUE

\* line 200: sender in n.history and n.history[sender] != value
Flagged(history, sender, value) ==
    sender \in DOMAIN history /\ history[sender] # value

\* line 204: DTC_ALPHA * n.state + (1 - DTC_ALPHA) * value
DTCUpdate(state, value) == (DTC_ALPHA * state + (100 - DTC_ALPHA) * value) \div 100

\* Mutant: an entry is applied when its remaining delay is at most 1.
M_DueEarly(msg) == msg.delay <= 1

\* line 196, negated: the entry is applied in this round
Due(msg) == ~(msg.delay > 0)

\* The receive phase of node n over the entries i.. of its inbox, lines 195-205.
\* acc holds the state, the new inbox, whether a delivery was flagged, the
\* number of deliveries and their log.
RECURSIVE ReceiveFrom(_, _, _, _)
ReceiveFrom(n, i, acc, epoch) ==
    IF i > Len(n.inbox) THEN acc
    ELSE LET msg == n.inbox[i]
         IN IF ~Due(msg)
            THEN ReceiveFrom(n, i + 1,
                     [acc EXCEPT !.new_inbox =
                         Append(@, [msg EXCEPT !.delay = msg.delay - 1])], epoch)
            ELSE ReceiveFrom(n, i + 1,
                     [acc EXCEPT
                        !.flagged = @ \/ Flagged(n.history, msg.sender, msg.value),
                        !.state = DTCUpdate(@, msg.value),
                        !.applied = @ + 1,
                        !.log = Append(@,
                            [receiver |-> n.node_id, sender |-> msg.sender,
                             value |-> msg.value, sent |-> msg.sent,
                             delay0 |-> msg.delay0, epoch |-> epoch,
                             state_before |-> acc.state,
                             flagged |-> Flagged(n.history, msg.sender, msg.value)])],
                     epoch)

Receive(n, epoch) ==
    ReceiveFrom(n, 1, [state |-> n.state, new_inbox |-> <<>>, flagged |-> FALSE,
                       applied |-> 0, log |-> <<>>], epoch)

\* The nodes in the order of nodes.values()
RECURSIVE NodeOrder(_)
NodeOrder(S) ==
    IF S = {} THEN <<>>
    ELSE LET m == CHOOSE x \in S : \A y \in S : x <= y
         IN <<m>> \o NodeOrder(S \ {m})

RECURSIVE ConcatLogs(_, _)
ConcatLogs(R, order) ==
    IF order = <<>> THEN <<>> ELSE R[Head(order)].log \o ConcatLogs(R, Tail(order))

RECURSIVE SumApplied(_, _)
SumApplied(R, S) ==
    IF S = {} THEN 0
    ELSE LET m == CHOOSE x \in S : TRUE IN R[m].applied + SumApplied(R, S \ {m})

\* Sections 1 and 2, lines 129-161: the keys place every node on a slot of the
\* hypercube, and the local recursion leaves every node the same state.
GossipPlace(placement) ==
    /\ g_pc = "place"
    /\ nodes' = [i \in GossipNodes |->
                    Node(i, placement[i], StateAfterIVC, <<>>, EmptyDict)]
    /\ g_verifier_ops' = 2 * Cardinality(GossipNodes) + IVC_DEPTH * Cardinality(GossipNodes)
    /\ g_pc' = "send"
    /\ UNCHANGED <<g_epoch, g_n, g_k, g_equivocation_detected, g_equivocation_epoch,
                   g_log, g_sent, not_gossip_vars>>

\* One pass of the inner loop of the send phase, lines 174-190: node g_n and the
\* neighbour at position g_k; lost is random.random() < PACKET_LOSS_PROB and
\* delay is drawn only when the packet is not lost.
GossipSend(lost, delay) ==
    /\ g_pc = "send"
    /\ lost => delay = 0
    /\ LET n == nodes[g_n]
           nb == neighbors_q6(n.q_node)[g_k]
           value == IF g_epoch = InjectRound /\ n.node_id = 0
                    THEN n.state + ConflictOffset ELSE n.state
           written == [nodes EXCEPT ![g_n].history = Put(@, g_epoch, value)]
       IN /\ nodes' = IF lost THEN nodes
                      ELSE [m \in GossipNodes |->
                              IF written[m].q_node = nb
                              THEN [written[m] EXCEPT !.inbox =
                                      Append(@, Message(n.node_id, value, delay, g_epoch))]
                              ELSE written[m]]
          /\ g_sent' = IF lost THEN g_sent
                       ELSE g_sent \cup
                            {[receiver |-> m, sender |-> n.node_id, sent |-> g_epoch,
                              delay0 |-> delay] : m \in {x \in GossipNodes :
                                                            nodes[x].q_node = nb}}
    /\ IF g_k < Len(QCoords)
       THEN /\ g_k' = g_k + 1
            /\ UNCHANGED <<g_n, g_pc>>
       ELSE /\ g_k' = 1
            /\ IF g_n + 1 \in GossipNodes
               THEN /\ g_n' = g_n + 1
                    /\ UNCHANGED g_pc
               ELSE /\ g_n' = 0
                    /\ g_pc' = "receive"
    /\ UNCHANGED <<g_epoch, g_equivocation_detected, g_equivocation_epoch,
                   g_verifier_ops, g_log, not_gossip_vars>>

\* The receive phase of one round, lines 192-206, and the step of the loop.
GossipReceive ==
    /\ g_pc = "receive"
    /\ LET R == [i \in GossipNodes |-> Receive(nodes[i], g_epoch)]
           any == \E i \in GossipNodes : R[i].flagged
       IN /\ nodes' = [i \in GossipNodes |->
                         [nodes[i] EXCEPT !.state = R[i].state,
                                          !.inbox = R[i].new_inbox]]
          /\ g_equivocation_detected' = (g_equivocation_detected \/ any)
          /\ g_equivocation_epoch' = IF any THEN g_epoch ELSE g_equivocation_epoch
          /\ g_verifier_ops' = g_verifier_ops + SumApplied(R, GossipNodes)
          /\ g_log' = g_log \o ConcatLogs(R, NodeOrder(GossipNodes))
    /\ g_epoch' = g_epoch + 1
    /\ g_pc' = IF g_epoch + 1 < MaxGossipSteps THEN "send" ELSE "done"
    /\ UNCHANGED <<g_n, g_k, g_sent, not_gossip_vars>>

\* The simulation is not running.
GossipIdle ==
    /\ nodes = EmptyDict
    /\ g_epoch = 0
    /\ g_pc = "idle"
    /\ g_n = 0
    /\ g_k = 1
    /\ g_equivocation_detected = FALSE
    /\ g_equivocation_epoch = None
    /\ g_verifier_ops = 0
    /\ g_log = <<>>
    /\ g_sent = {}

\* run_mega_coupled_stress has been entered, lines 117-123.
GossipInit ==
    /\ nodes = EmptyDict
    /\ g_epoch = 0
    /\ g_pc = "place"
    /\ g_n = 0
    /\ g_k = 1
    /\ g_equivocation_detected = FALSE
    /\ g_equivocation_epoch = None
    /\ g_verifier_ops = 0
    /\ g_log = <<>>
    /\ g_sent = {}

GossipNext ==
    \/ \E placement \in [GossipNodes -> QSlots] : GossipPlace(placement)
    \/ \E lost \in BOOLEAN, delay \in GossipDelays : GossipSend(lost, delay)
    \/ GossipReceive

(***************************************************************************)
(* Signed replay / equivocation audit runner                               *)
(* (tklocal_signed_equivocation_replay_audit.py, the whole loop)           *)
(***************************************************************************)

\* The constants of the run, scaled down with their order kept:
\* the replayed epoch < the forged epoch < the epoch of the replay, the gap
\* above the largest delay, and the last injections due before the run ends.
RunEpochs == 8          \* EPOCHS
RunMaxDelay == 2        \* MAX_DELAY
RunReplayGap == 3       \* REPLAY_EPOCH_GAP
RunForgeEpoch == 2      \* the epoch of line 128
RunReplayEpoch == 4     \* the epoch of line 138

\* States are whole numbers of 1e-3: state = 1.0, state *= 0.9, state + 0.5.
RunInitialState == 1000
RunForgeOffset == 500
RunContract(state) == (9 * state) \div 10

\* random.randint(0, MAX_DELAY)
RunDelays == 0 .. RunMaxDelay

\* An inbox entry (frame, delay); tag, enq and delay0 are history fields: which
\* append put it there, in which loop epoch and with which delay.
Entry(f, delay, tag, enq) ==
    [f |-> f, delay |-> delay, tag |-> tag, enq |-> enq, delay0 |-> delay]

EntryId(x) == <<x.enq, x.tag>>

\* signer.sign of a run: the k-th call draws the randomness k.
RunSign(epoch, state, k) == Sign(canonical_message(epoch, state), k)

\* Mutant: the replayed frame is signed anew instead of being sent again.
M_ReplayFrameResigned(history, epoch) ==
    LET f == history[epoch - RunReplayGap]
    IN SignedFrame(f.epoch, f.state, RunSign(f.epoch, f.state, -1))

\* lines 139-140: replay_frame = signed_history[epoch - REPLAY_EPOCH_GAP]
ReplayFrame(history, epoch) == history[epoch - RunReplayGap]

\* Mutant: a frame is admitted as soon as its remaining delay is at most 1.
M_HeldBackOnlyAboveOne(delay) == delay > 1

\* line 148: the frame stays in the inbox for this epoch
HeldBack(delay) == delay > 0

\* Lines 152-174 for one frame at zero delay, on the tracking state D.
Admitted(D, f, epoch) ==
    LET o == Outcome(D.seen_frames, D.seen_epochs, f)
    IN [seen_frames |-> Remembered(D.seen_frames, f, o),
        seen_epochs |-> IF o = "accepted" THEN Put(D.seen_epochs, f.epoch, f.state)
                        ELSE D.seen_epochs,
        equivocation_detected |-> (D.equivocation_detected \/ o = "equivocation"),
        replay_detected |-> (D.replay_detected \/ o = "replay"),
        detection_epoch |-> IF o = "equivocation" THEN epoch ELSE D.detection_epoch,
        verifier_ops |-> D.verifier_ops + 1,
        raised |-> IF o = "signature_failure"
                   THEN "SIGNATURE VERIFICATION FAILURE" ELSE "none",
        last |-> [frame |-> f, outcome |-> o],
        accepts |-> IF o = "accepted"
                    THEN Put(D.accepts, FrameId(f),
                             IF FrameId(f) \in DOMAIN D.accepts
                             THEN D.accepts[FrameId(f)] + 1 ELSE 1)
                    ELSE D.accepts,
        rejects |-> IF o = "equivocation"
                    THEN Put(D.rejects, FrameId(f),
                             IF FrameId(f) \in DOMAIN D.rejects
                             THEN D.rejects[FrameId(f)] + 1 ELSE 1)
                    ELSE D.rejects]

\* The delivery phase, lines 146-176, over the entries i.. of the inbox.  acc
\* holds the tracking state, next_inbox, and the admissions of this phase.  A
\* raised error ends the phase at once.
RECURSIVE DeliveryFrom(_, _, _, _)
DeliveryFrom(box, i, acc, epoch) ==
    IF i > Len(box) \/ acc.D.raised # "none" THEN acc
    ELSE LET x == box[i]
         IN IF HeldBack(x.delay)
            THEN DeliveryFrom(box, i + 1,
                     [acc EXCEPT !.next_inbox = Append(@, [x EXCEPT !.delay = x.delay - 1])],
                     epoch)
            ELSE LET D2 == Admitted(acc.D, x.f, epoch)
                 IN DeliveryFrom(box, i + 1,
                        [acc EXCEPT !.D = D2,
                                    !.now = Append(@, [id |-> EntryId(x), enq |-> x.enq,
                                                       delay0 |-> x.delay0,
                                                       epoch |-> epoch,
                                                       outcome |-> D2.last.outcome])],
                        epoch)

RECURSIVE CountNow(_, _)
CountNow(count, now) ==
    IF now = <<>> THEN count
    ELSE CountNow([count EXCEPT ![Head(now).id] = @ + 1], Tail(now))

\* One iteration of the loop, lines 114-176: the honest frame, the forged one
\* in the forge epoch, the replayed one in the replay epoch, then the delivery
\* phase.  Each delay is drawn only when its frame is appended.
SignedRunEpoch(d_honest, d_forged, d_replay) ==
    /\ r_pc = "loop"
    /\ s_epoch # RunForgeEpoch => d_forged = 0
    /\ s_epoch # RunReplayEpoch => d_replay = 0
    /\ LET epoch == s_epoch
           state == RunContract(r_state)
           frame == SignedFrame(epoch, state, RunSign(epoch, state, 2 * epoch))
           history == Put(signed_history, epoch, frame)
           forged == SignedFrame(epoch, state + RunForgeOffset,
                                 RunSign(epoch, state + RunForgeOffset, 2 * epoch + 1))
           box1 == Append(s_inbox, Entry(frame, d_honest, "honest", epoch))
           box2 == IF epoch = RunForgeEpoch
                   THEN Append(box1, Entry(forged, d_forged, "forged", epoch))
                   ELSE box1
           box3 == IF epoch = RunReplayEpoch
                   THEN Append(box2, Entry(ReplayFrame(history, epoch), d_replay,
                                           "replay", epoch))
                   ELSE box2
           D0 == [seen_frames |-> seen_frames, seen_epochs |-> seen_epochs,
                  equivocation_detected |-> equivocation_detected,
                  replay_detected |-> replay_detected,
                  detection_epoch |-> detection_epoch,
                  verifier_ops |-> s_verifier_ops + 1,
                  raised |-> s_raised, last |-> s_last, accepts |-> s_accepts,
                  rejects |-> s_rejects]
           R == DeliveryFrom(box3, 1, [D |-> D0, next_inbox |-> <<>>, now |-> <<>>],
                             epoch)
           new_ids == {EntryId(box3[i]) : i \in (Len(s_inbox) + 1) .. Len(box3)}
           count0 == [id \in (DOMAIN r_count) \cup new_ids |->
                        IF id \in DOMAIN r_count THEN r_count[id] ELSE 0]
       IN /\ r_state' = state
          /\ signed_history' = history
          /\ seen_frames' = R.D.seen_frames
          /\ seen_epochs' = R.D.seen_epochs
          /\ equivocation_detected' = R.D.equivocation_detected
          /\ replay_detected' = R.D.replay_detected
          /\ detection_epoch' = R.D.detection_epoch
          /\ s_verifier_ops' = R.D.verifier_ops
          /\ s_raised' = R.D.raised
          /\ s_last' = R.D.last
          /\ s_accepts' = R.D.accepts
          /\ s_rejects' = R.D.rejects
          /\ r_now' = R.now
          /\ r_count' = CountNow(count0, R.now)
          /\ s_inbox' = IF R.D.raised # "none" THEN box3 ELSE R.next_inbox
          /\ s_epoch' = IF R.D.raised # "none" THEN epoch ELSE epoch + 1
          /\ r_pc' = IF R.D.raised # "none" THEN "done"
                     ELSE IF epoch + 1 < RunEpochs THEN "loop" ELSE "end"
    /\ UNCHANGED not_signed_vars

\* Lines 181-186, the hard safety assertions after the loop.
SignedRunEnd ==
    /\ r_pc = "end"
    /\ s_raised' = IF ~equivocation_detected THEN "SIGNED EQUIVOCATION NOT DETECTED"
                   ELSE IF ~replay_detected THEN "REPLAY NOT DETECTED"
                   ELSE "none"
    /\ r_pc' = "done"
    /\ UNCHANGED <<detector_vars, s_verifier_ops, s_epoch, s_last, s_accepts,
                   s_rejects, s_inbox, signed_history, r_state, r_count, r_now, not_signed_vars>>

\* The run is not under way.
SignedRunIdle ==
    /\ s_inbox = <<>>
    /\ signed_history = EmptyDict
    /\ r_state = RunInitialState
    /\ r_pc = "idle"
    /\ r_count = EmptyDict
    /\ r_now = <<>>

\* Lines 94-112: the run starts.
SignedRunInit ==
    /\ s_inbox = <<>>
    /\ signed_history = EmptyDict
    /\ r_state = RunInitialState
    /\ r_pc = "loop"
    /\ r_count = EmptyDict
    /\ r_now = <<>>

SignedRunNext ==
    \/ \E d_honest \in RunDelays, d_forged \in RunDelays, d_replay \in RunDelays :
           SignedRunEpoch(d_honest, d_forged, d_replay)
    \/ SignedRunEnd

(***************************************************************************)
(* The three counters side by side: one verifier, one ledger and one pair  *)
(* of folding engines, called in any order                                 *)
(***************************************************************************)

\* The number of counted calls in a behaviour, the three objects together.
MaxCountedCalls == 4

CountedCalls == ops + ledger.verifier_ops + f_depth

\* Two commitments for one key, with different state roots.
CounterCommitments == {EpochCommitment(0, 0, 0), EpochCommitment(0, 0, 1)}

CounterObserve(c) ==
    /\ CountedCalls < MaxCountedCalls
    /\ observe(c, IF c.state_root = 0 THEN "Branch_A" ELSE "Branch_B")

CounterAddEpoch(epoch, parent) ==
    /\ CountedCalls < MaxCountedCalls
    /\ add_epoch(epoch, parent)

CounterTryLateInjection(epoch, parent) ==
    /\ CountedCalls < MaxCountedCalls
    /\ try_late_injection(epoch, parent)

CounterFold(witness, delta) ==
    /\ CountedCalls < MaxCountedCalls
    /\ FoldIteration(witness, delta)

CounterNext ==
    \/ \E c \in CounterCommitments : CounterObserve(c)
    \/ CounterAddEpoch(0, None)
    \/ CounterAddEpoch(1, 0)
    \/ finalize_up_to(0)
    \/ CounterTryLateInjection(1, 0)
    \/ \E x \in {<<0, 0>>, <<3, 5>>} : CounterFold(x[1], x[2])

(***************************************************************************)
(* Adversarial scheduling audit (tklocal_adversarial_audit.py)             *)
(***************************************************************************)

\* MAX_FRAMES (2048), MAX_DELAY (32) and MAX_REPLAYS (64), scaled down.
MAX_FRAMES == 3
MAX_DELAY == 2
MAX_REPLAYS == 1
\* MAX_RECOVERY_EPOCHS (32), scaled down with the number of frames.
MAX_RECOVERY_EPOCHS == 1
\* The drop fraction 0.05 of schedule() and FAULT_FRACTION (0.15), in percent and
\* scaled up so that the short lists of the model lose and corrupt items.
DropPercent == 25
FaultPercent == 34
MAX_VERIFIER_OPS == 50000

\* Frame values, perturbations and residuals are in units of 1e-7, so that the
\* contraction 0.9 * state + 0.1 * value is exact over the steps of a run.
ADV_RESIDUAL_BOUND == 100000
FrameValues == {500000, 10000000}
Perturbations == {-5000000, 5000000}

Frame(index, value, valid, stale) ==
    [index |-> index, value |-> value, valid |-> valid, stale |-> stale]

MinOf(a, b) == IF a < b THEN a ELSE b

\* reversed(block)
M_ReversedKeepsOrder(s) == s
Reversed(s) == [i \in 1..Len(s) |-> s[Len(s) + 1 - i]]

\* The blocks buffer[i:i + MAX_DELAY] for i = from, from + MAX_DELAY, ..., each
\* reversed, concatenated.
RECURSIVE ReversedBlocks(_, _)
ReversedBlocks(buf, from) ==
    IF from >= Len(buf) THEN <<>>
    ELSE Reversed(SubSeq(buf, from + 1, MinOf(from + MAX_DELAY, Len(buf))))
             \o ReversedBlocks(buf, from + MAX_DELAY)

\* random.sample(population, k): k distinct positions of the population, in any
\* order.
Samples(n, k) ==
    {s \in [1..k -> 1..n] : \A i, j \in 1..k : i # j => s[i] # s[j]}

\* The stale copies appended for the sampled frames.
M_StaleCopiesInvalid(frames, sample) ==
    [k \in 1..Len(sample) |->
        Frame(frames[sample[k]].index, frames[sample[k]].value, FALSE, TRUE)]
StaleCopies(frames, sample) ==
    [k \in 1..Len(sample) |->
        Frame(frames[sample[k]].index, frames[sample[k]].value, TRUE, TRUE)]

\* int(0.05 * len(scheduled)) and int(len(frames) * fraction)
DropCount(n) == (DropPercent * n) \div 100
FaultCount(n) == (FaultPercent * n) \div 100

\* The draws random.randrange(len(scheduled)) of `drops` successive pops, as
\* positions 1..len of the list as it shrinks.
PopDraws(n, drops) ==
    {p \in [1..drops -> 1..n] : \A i \in 1..drops : p[i] <= n - i + 1}

\* list.pop(i)
Pop(s, p) == SubSeq(s, 1, p - 1) \o SubSeq(s, p + 1, Len(s))

RECURSIVE PopAll(_, _)
PopAll(s, draws) ==
    IF draws = <<>> THEN s ELSE PopAll(Pop(s, Head(draws)), Tail(draws))

\* AdversarialScheduler.schedule() before its drops.
Replayed(buf, sample) ==
    ReversedBlocks(buf, 0) \o StaleCopies(ReversedBlocks(buf, 0), sample)

\* FaultInjector.inject(frames): the frames at the sampled positions get a
\* perturbed value and valid = False; the list itself is returned.
M_InjectRemoves(frames, chosen, pert) ==
    SelectSeq(
        [i \in 1..Len(frames) |->
            IF i \in chosen
            THEN [frames[i] EXCEPT !.value = @ + pert[i], !.valid = FALSE]
            ELSE frames[i]],
        LAMBDA f : f.valid)
Inject(frames, chosen, pert) ==
    [i \in 1..Len(frames) |->
        IF i \in chosen
        THEN [frames[i] EXCEPT !.value = @ + pert[i], !.valid = FALSE]
        ELSE frames[i]]

NewAggregator == [state |-> 0, verifier_ops |-> 0, residuals |-> <<>>]

\* 0.9 * state + 0.1 * value
Contract10(state, value) == (9 * state + value) \div 10

\* Aggregator.process(frame)
M_ProcessIgnoresValid(a, frame) ==
    [state |-> Contract10(a.state, frame.value),
     verifier_ops |-> a.verifier_ops + 1,
     residuals |->
         Append(a.residuals,
                IF Contract10(a.state, frame.value) >= a.state
                THEN Contract10(a.state, frame.value) - a.state
                ELSE a.state - Contract10(a.state, frame.value))]
\* Mutant: a stale frame is counted but not aggregated.
M_ProcessSkipsStale(a, frame) ==
    IF ~frame.valid \/ frame.stale
    THEN [a EXCEPT !.verifier_ops = @ + 1]
    ELSE [state |-> Contract10(a.state, frame.value),
          verifier_ops |-> a.verifier_ops + 1,
          residuals |->
              Append(a.residuals,
                     IF Contract10(a.state, frame.value) >= a.state
                     THEN Contract10(a.state, frame.value) - a.state
                     ELSE a.state - Contract10(a.state, frame.value))]
Process(a, frame) ==
    IF ~frame.valid
    THEN [a EXCEPT !.verifier_ops = @ + 1]
    ELSE [state |-> Contract10(a.state, frame.value),
          verifier_ops |-> a.verifier_ops + 1,
          residuals |->
              Append(a.residuals,
                     IF Contract10(a.state, frame.value) >= a.state
                     THEN Contract10(a.state, frame.value) - a.state
                     ELSE a.state - Contract10(a.state, frame.value))]

\* agg.residuals and agg.residuals[-1] < RESIDUAL_BOUND
M_BelowBoundFirst(residuals) ==
    residuals # <<>> /\ residuals[1] < ADV_RESIDUAL_BOUND
BelowBound(residuals) ==
    residuals # <<>> /\ residuals[Len(residuals)] < ADV_RESIDUAL_BOUND

RECURSIVE MaxOfSeq(_)
MaxOfSeq(s) ==
    IF s = <<>> THEN 0
    ELSE IF Head(s) >= MaxOfSeq(Tail(s)) THEN Head(s) ELSE MaxOfSeq(Tail(s))

\* scheduler.submit(Frame(i, random.uniform(-1, 1))), i the next index.
submit(value) ==
    /\ adv_pc = "submit"
    /\ Len(buffer) < MAX_FRAMES
    /\ buffer' = Append(buffer, Frame(Len(buffer), value, TRUE, FALSE))
    /\ UNCHANGED <<scheduled, corrupted, agg, recovered_epoch, adv_i, adv_pc,
                   adv_result, adv_full, adv_delivered>>
    /\ UNCHANGED not_adv_vars

\* scheduled = scheduler.schedule()
schedule(sample, draws) ==
    /\ adv_pc = "submit"
    /\ adv_full' = Replayed(buffer, sample)
    /\ scheduled' = PopAll(Replayed(buffer, sample), draws)
    /\ adv_pc' = "inject"
    /\ UNCHANGED <<buffer, corrupted, agg, recovered_epoch, adv_i, adv_result,
                   adv_delivered>>
    /\ UNCHANGED not_adv_vars

\* corrupted = injector.inject(scheduled); `scheduled` keeps the list as it was
\* returned by schedule().
inject(chosen, pert) ==
    /\ adv_pc = "inject"
    /\ corrupted' = Inject(scheduled, chosen, pert)
    /\ adv_pc' = "process"
    /\ UNCHANGED <<buffer, scheduled, agg, recovered_epoch, adv_i, adv_result,
                   adv_full, adv_delivered>>
    /\ UNCHANGED not_adv_vars

\* One iteration of the loop over enumerate(corrupted).
AdversarialStep ==
    /\ adv_pc = "process"
    /\ adv_i < Len(corrupted)
    /\ agg' = Process(agg, corrupted[adv_i + 1])
    /\ adv_delivered' = Append(adv_delivered, corrupted[adv_i + 1])
    /\ recovered_epoch' =
           IF BelowBound(agg'.residuals) /\ recovered_epoch = None
           THEN adv_i ELSE recovered_epoch
    /\ adv_i' = adv_i + 1
    /\ adv_pc' = IF agg'.verifier_ops > MAX_VERIFIER_OPS THEN "end" ELSE "process"
    /\ UNCHANGED <<buffer, scheduled, corrupted, adv_result, adv_full>>
    /\ UNCHANGED not_adv_vars

\* After the loop: the AuditResult (runtime left out).
AdversarialEnd ==
    /\ \/ adv_pc = "end"
       \/ adv_pc = "process" /\ adv_i = Len(corrupted)
    /\ LET recovered ==
               IF recovered_epoch = None THEN Len(corrupted) ELSE recovered_epoch
       IN  /\ recovered_epoch' = recovered
           /\ adv_result' =
                  [safety_ok |-> recovered <= MAX_RECOVERY_EPOCHS,
                   liveness_ok |-> TRUE,
                   max_residual |-> MaxOfSeq(agg.residuals),
                   verifier_ops |-> agg.verifier_ops,
                   epochs_to_recover |-> recovered]
    /\ adv_pc' = "done"
    /\ UNCHANGED <<buffer, scheduled, corrupted, agg, adv_i, adv_full,
                   adv_delivered>>
    /\ UNCHANGED not_adv_vars

AdversarialInit ==
    /\ buffer = <<>>
    /\ scheduled = <<>>
    /\ corrupted = <<>>
    /\ agg = NewAggregator
    /\ recovered_epoch = None
    /\ adv_i = 0
    /\ adv_pc = "submit"
    /\ adv_result = None
    /\ adv_full = <<>>
    /\ adv_delivered = <<>>

AdversarialNext ==
    \/ \E value \in FrameValues : submit(value)
    \/ \E sample \in Samples(Len(buffer), MinOf(MAX_REPLAYS, Len(buffer))) :
           \E draws \in PopDraws(Len(buffer) + Len(sample),
                                 DropCount(Len(buffer) + Len(sample))) :
               schedule(sample, draws)
    \/ \E chosen \in SUBSET (1..Len(scheduled)) :
           /\ Cardinality(chosen) = FaultCount(Len(scheduled))
           /\ \E pert \in [chosen -> Perturbations] : inject(chosen, pert)
    \/ AdversarialStep
    \/ AdversarialEnd

(***************************************************************************)
(* Hypercube neighbours (neighbors_q6, hamming_neighbors)                  *)
(***************************************************************************)

Q_DIM == 6

\* hamming_neighbors(node, dim)
hamming_neighbors(node, dim) == [k \in 1 .. dim |-> FlipBit(node, k - 1)]

\* neighbors_q6(n) over all Q_DIM coordinates
NeighborsQ6(n) == [k \in 1 .. Q_DIM |-> FlipBit(n, k - 1)]

\* neighbors = hamming_neighbors(node_index, dim)
CallHammingNeighbors ==
    /\ nb_result = <<>>
    /\ nb_result' = hamming_neighbors(nb_node, nb_dim)
    /\ UNCHANGED <<nb_node, nb_dim>>
    /\ UNCHANGED not_nb_vars

\* neighbors_q6(n.q_node), the dimension being Q_DIM
CallNeighborsQ6 ==
    /\ nb_result = <<>>
    /\ nb_dim = Q_DIM
    /\ nb_result' = NeighborsQ6(nb_node)
    /\ UNCHANGED <<nb_node, nb_dim>>
    /\ UNCHANGED not_nb_vars

NeighboursIdle ==
    /\ nb_node = 0
    /\ nb_dim = 1
    /\ nb_result = <<>>

\* A slot of a hypercube of dimension 1 .. Q_DIM (value % Q_NODES), no call made.
NeighboursInit ==
    /\ nb_dim \in 1 .. Q_DIM
    /\ nb_node \in 0 .. (Pow2(nb_dim) - 1)
    /\ nb_result = <<>>

NeighboursNext ==
    \/ CallHammingNeighbors
    \/ CallNeighborsQ6

(***************************************************************************)
(* Folding audit runner (run_ivc_folding_equivocation_audit, main)         *)
(***************************************************************************)

\* MAX_DEPTH (64), scaled down.
RUN_MAX_DEPTH == 8

\* What witness_B adds to witness_A at a depth: 0.25, in units of 5e-7, at depth
\* MAX_DEPTH // 2 and nothing elsewhere.
M_InjectedDeltaSmall(depth) == IF depth = RUN_MAX_DEPTH \div 2 THEN 2 ELSE 0
InjectedDelta(depth) == IF depth = RUN_MAX_DEPTH \div 2 THEN 500000 ELSE 0

\* One iteration of the loop over range(1, MAX_DEPTH + 1), with the break.
FoldRunIteration(witness_A) ==
    /\ f_pc = "loop"
    /\ ~f_detected
    /\ f_depth < RUN_MAX_DEPTH
    /\ LET depth == f_depth + 1
           witness_B == witness_A + InjectedDelta(depth)
           sA == FoldReturn(state_A, QInt(witness_A))
           sB == FoldReturn(state_B, QInt(witness_B))
       IN /\ f_depth' = depth
          /\ engine_A' = FoldEngine(engine_A, state_A, QInt(witness_A))
          /\ engine_B' = FoldEngine(engine_B, state_B, QInt(witness_B))
          /\ state_A' = sA
          /\ state_B' = sB
          /\ f_detected' = Diverged(sA, sB)
          /\ f_detection_depth' = IF Diverged(sA, sB) THEN depth ELSE f_detection_depth
          /\ f_div' = IF InjectedDelta(depth) # 0
                      THEN [depth |-> depth, delta |-> InjectedDelta(depth)]
                      ELSE f_div
    /\ UNCHANGED frun_vars
    /\ UNCHANGED not_frun_vars

\* After the loop: the AuditResult (runtime left out) and the gate of main.
FoldRunEnd ==
    /\ f_pc = "loop"
    /\ f_detected \/ f_depth = RUN_MAX_DEPTH
    /\ f_result' =
           [equivocation_detected |-> f_detected,
            detection_depth |-> f_detection_depth,
            max_residual |-> QMax(engine_A.max_residual, engine_B.max_residual),
            verifier_ops |-> engine_A.verifier_ops + engine_B.verifier_ops]
    /\ f_raised' = ~f_detected
    /\ f_pc' = "done"
    /\ UNCHANGED fold_vars
    /\ UNCHANGED not_frun_vars

FoldRunIdle ==
    /\ f_pc = "idle"
    /\ f_result = None
    /\ f_raised = FALSE

FoldRunInit ==
    /\ f_pc = "loop"
    /\ f_result = None
    /\ f_raised = FALSE

FoldRunNext ==
    \/ \E w \in FoldWitnesses : FoldRunIteration(w)
    \/ FoldRunEnd

(***************************************************************************)
(* Two runs of the gossip simulation from one seed                         *)
(***************************************************************************)

\* random.seed(1337)
RANDOM_SEED == 1337

\* The stream of the seeded generator: draw k.  The generator is stood for by a
\* linear congruential one; what matters is that the stream is a function of the
\* seed.
RECURSIVE SeededDraw(_)
SeededDraw(k) ==
    IF k = 0 THEN RANDOM_SEED
    ELSE (75 * SeededDraw(k - 1) + 74) % 65537

\* random.random() < PACKET_LOSS_PROB, at draw k
SeededLost(k) == SeededDraw(k) % 100 < 25

\* random.randint(0, MAX_DELAY), at draw k
SeededDelay(k) == SeededDraw(k) % Cardinality(GossipDelays)

\* The place in the stream of the first draw of pass j of the inner send loop
\* (place 0 holds the seed): a pass takes one draw for a lost packet, two for a
\* sent one.
RECURSIVE FirstDraw(_)
FirstDraw(j) ==
    IF j = 0 THEN 1
    ELSE FirstDraw(j - 1) + (IF SeededLost(FirstDraw(j - 1)) THEN 1 ELSE 2)

\* The passes of the inner send loop made so far.
SendPass == (g_epoch * Cardinality(GossipNodes) + g_n) * Len(QCoords) + (g_k - 1)

\* The verdict fields of the result.
GossipVerdict == <<g_equivocation_detected, g_equivocation_epoch, g_verifier_ops>>

\* One pass of the send loop with the draws of the seeded generator.
SeededSend ==
    GossipSend(SeededLost(FirstDraw(SendPass)),
               IF SeededLost(FirstDraw(SendPass)) THEN 0
               ELSE SeededDelay(FirstDraw(SendPass) + 1))

\* The module is loaded and run again: random.seed(1337), fresh state and keys.
GossipRerun ==
    /\ g_pc = "done"
    /\ g_first = <<>>
    /\ g_first' = GossipVerdict
    /\ nodes' = EmptyDict
    /\ g_epoch' = 0
    /\ g_pc' = "place"
    /\ g_n' = 0
    /\ g_k' = 1
    /\ g_equivocation_detected' = FALSE
    /\ g_equivocation_epoch' = None
    /\ g_verifier_ops' = 0
    /\ g_log' = <<>>
    /\ g_sent' = {}
    /\ UNCHANGED not_rerun_vars

NoFirstRun == g_first = <<>>

SeededGossipNext ==
    \/ \E placement \in [GossipNodes -> QSlots] : GossipPlace(placement)
    \/ SeededSend
    \/ GossipReceive
    \/ GossipRerun

(***************************************************************************)
(* Temporal audit (tklocal_temporal_audit.py)                              *)
(***************************************************************************)

\* Bounds of the temporal model.
MaxTemporalEpochs == 21     \* max_epochs of a run is one of 0..MaxTemporalEpochs
FramesPerEpoch == 2         \* frames_per_epoch

\* Residuals are whole numbers of 1e-9: residual = 1.0
InitialResidual == 1000000000

\* The settings of a run: delays and skews in whole milliseconds, the drop
\* probability and the value of random.random() in percent.
TemporalDelays == {0, 2}
TemporalSkews == {0, 1}
TemporalDrops == {0, 10}
RandomDraws == {5, 50}

\* TemporalParams(delta_delay_ms, delta_skew_ms, drop_prob, reorder_window, max_epochs)
TemporalParams(delay, skew, drop, window, max_epochs) ==
    [delta_delay_ms |-> delay, delta_skew_ms |-> skew, drop_prob |-> drop,
     reorder_window |-> window, max_epochs |-> max_epochs,
     frames_per_epoch |-> FramesPerEpoch]

\* EpochSimulator(params)
EpochSimulator(params) ==
    [params |-> params, current_epoch |-> 0, frames |-> <<>>, proofs |-> <<>>,
     residuals |-> <<>>]

\* random.uniform(0, delta_delay_ms) and random.uniform(-delta_skew_ms,
\* delta_skew_ms): the two ends of the interval.
DelayDraws(params) == {0, params.delta_delay_ms}
SkewDraws(params) == {0 - params.delta_skew_ms, params.delta_skew_ms}

inject_delay(t, u) == t + u
inject_skew(t, w) == t + w
maybe_drop(s, r) == r < s.params.drop_prob

\* EpochSimulator.submit_frame(frame_id, logical_time) with the draws r, u, w
submit_frame(s, frame_id, time, r, u, w) ==
    IF maybe_drop(s, r) THEN s
    ELSE [s EXCEPT !.frames =
             Append(@, <<inject_skew(inject_delay(time, u), w), frame_id>>)]

\* frames.sort(key=lambda x: x[0]): a stable sort on the arrival time.
InsertFrame(sorted, x) ==
    LET k == Cardinality({i \in 1 .. Len(sorted) : sorted[i][1] <= x[1]})
    IN SubSeq(sorted, 1, k) \o <<x>> \o SubSeq(sorted, k + 1, Len(sorted))

RECURSIVE SortFrames(_)
SortFrames(frames) ==
    IF frames = <<>> THEN <<>>
    ELSE InsertFrame(SortFrames(SubSeq(frames, 1, Len(frames) - 1)),
                     frames[Len(frames)])

\* residual * 0.8, rounded down to a whole unit
Scale08(r) == (r \div 5) * 4 + ((r % 5) * 4) \div 5

\* Mutant: the residual contracts only in an epoch in which a frame arrived.
M_aggregate_epoch_arrivals(s) ==
    LET sorted == SortFrames(s.frames)
        residual == IF s.residuals = <<>> THEN InitialResidual
                    ELSE IF sorted = <<>> THEN s.residuals[Len(s.residuals)]
                    ELSE Scale08(s.residuals[Len(s.residuals)])
    IN [s EXCEPT !.residuals = Append(@, residual),
                 !.frames = SubSeq(sorted, 1, 0),
                 !.current_epoch = @ + 1]

\* EpochSimulator.aggregate_epoch(): the simulator after the call; the value
\* returned is the last residual.
aggregate_epoch(s) ==
    LET sorted == SortFrames(s.frames)
        residual == IF s.residuals = <<>> THEN InitialResidual
                    ELSE Scale08(s.residuals[Len(s.residuals)])
    IN [s EXCEPT !.residuals = Append(@, residual),
                 !.frames = SubSeq(sorted, 1, 0),
                 !.current_epoch = @ + 1]

check_contractivity(residuals) ==
    \A i \in 2 .. Len(residuals) : ~(residuals[i] >= residuals[i - 1])

\* sum(2 ** i for i in range(max_epochs))
RECURSIVE SumPow2(_)
SumPow2(n) == IF n <= 0 THEN 0 ELSE Pow2(n - 1) + SumPow2(n - 1)

check_verifier_bound(max_epochs) == SumPow2(max_epochs) < Pow2(20)

\* Lines 175-177: one pass of the inner loop of run_temporal_stress.
TemporalSubmit(r, u, w) ==
    /\ t_pc = "loop"
    /\ t_epoch < t_params.max_epochs
    /\ t_f < t_params.frames_per_epoch
    /\ maybe_drop(sim, r) => (u = 0 /\ w = t_params.delta_skew_ms)
    /\ sim' = submit_frame(sim, t_f, logical_time, r, u, w)
    /\ logical_time' = logical_time + 1
    /\ t_f' = t_f + 1
    /\ t_dropped' = (t_dropped \/ maybe_drop(sim, r))
    /\ UNCHANGED <<t_params, t_epoch, t_pc, t_raised, t_reordered>>
    /\ UNCHANGED not_temporal_vars

\* Line 179: the frames of the epoch are submitted, the epoch is aggregated.
TemporalAggregate ==
    /\ t_pc = "loop"
    /\ t_epoch < t_params.max_epochs
    /\ t_f = t_params.frames_per_epoch
    /\ sim' = aggregate_epoch(sim)
    /\ t_reordered' = (t_reordered \/ SortFrames(sim.frames) # sim.frames)
    /\ t_f' = 0
    /\ t_epoch' = t_epoch + 1
    /\ UNCHANGED <<t_params, logical_time, t_pc, t_raised, t_dropped>>
    /\ UNCHANGED not_temporal_vars

\* Lines 184-196: the two assertions after the loop.
TemporalChecks ==
    /\ t_pc = "loop"
    /\ t_epoch >= t_params.max_epochs
    /\ t_raised' = IF ~check_contractivity(sim.residuals)
                   THEN "Residuals not contractive under asynchrony"
                   ELSE IF ~check_verifier_bound(t_params.max_epochs)
                   THEN "Verifier cost exceeded bound"
                   ELSE "none"
    /\ t_pc' = "done"
    /\ UNCHANGED <<t_params, sim, logical_time, t_epoch, t_f, t_dropped, t_reordered>>
    /\ UNCHANGED not_temporal_vars

\* No run of the temporal audit.
TemporalIdle ==
    /\ t_params = TemporalParams(0, 0, 0, 8, 0)
    /\ sim = EpochSimulator(t_params)
    /\ logical_time = 0
    /\ t_epoch = 0
    /\ t_f = 0
    /\ t_pc = "idle"
    /\ t_raised = "none"
    /\ t_dropped = FALSE
    /\ t_reordered = FALSE

\* run_temporal_stress(params) has been entered, lines 166-172.
TemporalInit ==
    /\ t_params \in {TemporalParams(d, k, p, 8, m) :
                        d \in TemporalDelays, k \in TemporalSkews, p \in TemporalDrops,
                        m \in 0 .. MaxTemporalEpochs}
    /\ sim = EpochSimulator(t_params)
    /\ logical_time = 0
    /\ t_epoch = 0
    /\ t_f = 0
    /\ t_pc = "loop"
    /\ t_raised = "none"
    /\ t_dropped = FALSE
    /\ t_reordered = FALSE

TemporalNext ==
    \/ \E r \in RandomDraws, u \in DelayDraws(t_params), w \in SkewDraws(t_params) :
           TemporalSubmit(r, u, w)
    \/ TemporalAggregate
    \/ TemporalChecks

(***************************************************************************)
(* XR full-dive safety envelope (tklocal_fdse.py)                          *)
(***************************************************************************)

\* Bounds of the guardian model.  A float is a whole number of units, FScale
\* units making 1.0: one unit is the smallest positive float and FMax the
\* largest finite one.  A result is rounded to the nearest unit, ties to even;
\* beyond FMax it is an infinity, and inf - inf and 0 * inf are NaN.
FScale == 1000
FMax == 1000000
MaxFailCount == 3       \* shunt is called while fail_count is below this

FInf == FMax + 1
FNaN == FMax + 2

\* Safety constants, lines 51-55 (jitter and MAX_LAT_JITTER in units of 1e-4).
MAX_LIN_ACCEL == 9810
MAX_ANG_VEL == 7854
MAX_LAT_JITTER == 5
LYAPUNOV_LAMBDA == 950
MAX_FAILS == 3

\* dt = 1 / 120
FdseDt == 8

FAbs(a) == IF a < 0 THEN 0 - a ELSE a
FSign(a) == IF a < 0 THEN 0 - 1 ELSE 1
FIsInf(a) == a = FInf \/ a = 0 - FInf
FSaturate(x) == IF x > FMax THEN FInf ELSE IF x < 0 - FMax THEN 0 - FInf ELSE x

\* n / d rounded to the nearest whole number, ties to even (d > 0)
RoundDiv(n, d) ==
    LET q == n \div d
        r == n % d
    IN IF 2 * r > d THEN q + 1
       ELSE IF 2 * r < d THEN q
       ELSE IF q % 2 = 0 THEN q ELSE q + 1

\* a * b
FMul(a, b) ==
    IF a = FNaN \/ b = FNaN THEN FNaN
    ELSE IF FIsInf(a) \/ FIsInf(b)
         THEN IF a = 0 \/ b = 0 THEN FNaN ELSE FSign(a) * FSign(b) * FInf
    ELSE IF a # 0 /\ FAbs(b) > (FMax * FScale) \div FAbs(a)
         THEN FSign(a) * FSign(b) * FInf
    ELSE FSaturate(RoundDiv(a * b, FScale))

\* a + b
FAdd(a, b) ==
    IF a = FNaN \/ b = FNaN THEN FNaN
    ELSE IF FIsInf(a) /\ FIsInf(b) THEN (IF a = b THEN a ELSE FNaN)
    ELSE IF FIsInf(a) THEN a
    ELSE IF FIsInf(b) THEN b
    ELSE FSaturate(a + b)

FNeg(a) == IF a = FNaN THEN FNaN ELSE 0 - a

\* a - b
FSub(a, b) == FAdd(a, FNeg(b))

\* a > b and a < b: every comparison with NaN is false
FGt(a, b) == a # FNaN /\ b # FNaN /\ a > b
FLt(a, b) == FGt(b, a)

\* The greatest r in lo..hi with r * r <= n (lo * lo <= n)
RECURSIVE ISqrt(_, _, _)
ISqrt(n, lo, hi) ==
    IF lo >= hi THEN lo
    ELSE LET mid == (lo + hi + 1) \div 2
         IN IF mid * mid <= n THEN ISqrt(n, mid, hi) ELSE ISqrt(n, lo, mid - 1)

\* sqrt(a)
FSqrt(a) ==
    IF a = FNaN \/ a < 0 THEN FNaN
    ELSE IF a = FInf THEN FInf
    ELSE ISqrt(a * FScale, 0, 32000)

\* min(a, b) of Python: b if b < a, else a
FMin(a, b) == IF FLt(b, a) THEN b ELSE a

\* np.clip(x, lo, hi) on one component
FClip(x, lo, hi) ==
    IF x = FNaN THEN FNaN ELSE IF x < lo THEN lo ELSE IF x > hi THEN hi ELSE x

\* Vectors of R^3
Zero3 == <<0, 0, 0>>
Dot(a, b) == FAdd(FAdd(FMul(a[1], b[1]), FMul(a[2], b[2])), FMul(a[3], b[3]))
VecAdd(a, b) == [i \in 1 .. 3 |-> FAdd(a[i], b[i])]
VecScale(a, c) == [i \in 1 .. 3 |-> FMul(a[i], c)]
VecClip(a, bound) == [i \in 1 .. 3 |-> FClip(a[i], 0 - bound, bound)]

\* np.linalg.norm(v) = sqrt(dot(v, v))
Norm(v) == FSqrt(Dot(v, v))

XRState(pos, rot, v_lin, v_ang, jitter, neural_load) ==
    [pos |-> pos, rot |-> rot, v_lin |-> v_lin, v_ang |-> v_ang, jitter |-> jitter,
     neural_load |-> neural_load]

\* XRFDSEGuardian.lyapunov(s)
lyapunov(s) ==
    FAdd(FAdd(Dot(s.v_lin, s.v_lin), Dot(s.v_ang, s.v_ang)),
         FMul(s.neural_load, s.neural_load))

\* XRFDSEGuardian.clip_state(s)
clip_state(s) ==
    XRState(s.pos, s.rot, VecClip(s.v_lin, MAX_LIN_ACCEL), VecClip(s.v_ang, MAX_ANG_VEL),
            (IF s.jitter > MAX_LAT_JITTER THEN MAX_LAT_JITTER ELSE s.jitter),
            FMin(s.neural_load, FScale))

\* Lines 113-124: the predicted state.
Predicted(s, dt) ==
    XRState(VecAdd(s.pos, VecScale(s.v_lin, dt)), VecAdd(s.rot, VecScale(s.v_ang, dt)),
            s.v_lin, s.v_ang, s.jitter, s.neural_load)

\* Line 127: residual = V1 - LYAPUNOV_LAMBDA * V0
Residual(s, dt) ==
    FSub(lyapunov(Predicted(s, dt)), FMul(LYAPUNOV_LAMBDA, lyapunov(s)))

\* Lines 129-133
hard_fail(s, dt) ==
    \/ FGt(Norm(s.v_ang), MAX_ANG_VEL)
    \/ s.jitter > MAX_LAT_JITTER
    \/ FGt(Residual(s, dt), 0)

\* XRFDSEGuardian(): last_safe is <<>> for None, else the one state.
NewGuardian == [last_safe |-> <<>>, fail_count |-> 0]

\* XRFDSEGuardian.shunt(s, dt): the guardian after the call and the state returned.
shunt(g, s, dt) ==
    IF hard_fail(s, dt)
    THEN [guardian |-> [g EXCEPT !.fail_count = @ + 1],
          ret |-> IF g.last_safe # <<>> THEN g.last_safe[1] ELSE clip_state(s)]
    ELSE [guardian |-> [last_safe |-> <<Predicted(s, dt)>>, fail_count |-> 0],
          ret |-> Predicted(s, dt)]

\* The input states: at rest or moving along one axis, with a component whose
\* square underflows (1, and 50 whose square is two units), an ordinary one
\* (1.5), one above MAX_ANG_VEL and one whose square overflows (40.0).
LinSamples == {0, 1, 1500, 40000}
AngSamples == {0, 9000}
JitterSamples == {1, 10}
LoadSamples == {0, 50}
FdseStates ==
    {XRState(Zero3, Zero3, <<a, 0, 0>>, <<0, b, 0>>, j, n) :
        a \in LinSamples, b \in AngSamples, j \in JitterSamples, n \in LoadSamples}

\* guardian.shunt(s, dt)
Shunt(s, dt) ==
    /\ guardian.fail_count < MaxFailCount
    /\ LET call == shunt(guardian, s, dt)
       IN /\ guardian' = call.guardian
          /\ fd_last' = [called |-> TRUE, s |-> s, dt |-> dt, before |-> guardian,
                         V0 |-> lyapunov(s), V1 |-> lyapunov(Predicted(s, dt)),
                         residual |-> Residual(s, dt),
                         hard_fail |-> hard_fail(s, dt),
                         ret |-> call.ret]
    /\ UNCHANGED not_fdse_vars

FdseInit ==
    /\ guardian = NewGuardian
    /\ fd_last = [called |-> FALSE, s |-> XRState(Zero3, Zero3, Zero3, Zero3, 0, 0),
                  dt |-> 0, before |-> NewGuardian, V0 |-> 0, V1 |-> 0, residual |-> 0,
                  hard_fail |-> FALSE, ret |-> XRState(Zero3, Zero3, Zero3, Zero3, 0, 0)]

FdseNext == \E s \in FdseStates : Shunt(s, FdseDt)

(***************************************************************************)
(* Specifications                                                          *)
(***************************************************************************)

\* Every component freshly constructed, no runner started.
Init ==
    /\ VerifierInit /\ LedgerInit /\ AuditIdle /\ SignedInit /\ FoldInit
    /\ EquivocationRunInit /\ GossipIdle /\ SignedRunIdle /\ AdversarialInit
    /\ NeighboursIdle /\ FoldRunIdle /\ NoFirstRun /\ TemporalIdle /\ FdseInit

InitFinalityAudit ==
    /\ VerifierInit /\ LedgerInit /\ AuditInit /\ SignedInit /\ FoldInit
    /\ EquivocationRunInit /\ GossipIdle /\ SignedRunIdle /\ AdversarialInit
    /\ NeighboursIdle /\ FoldRunIdle /\ NoFirstRun /\ TemporalIdle /\ FdseInit

SpecSigned == Init /\ [][SignedNext]_vars

SpecFinalityAudit == InitFinalityAudit /\ [][AuditNext]_vars

SpecVerifier == Init /\ [][VerifierNext]_vars

SpecLedger == Init /\ [][LedgerNext]_vars

SpecCounters == Init /\ [][CounterNext]_vars

SpecFolding == Init /\ [][FoldNext]_vars

SpecEquivocationRun == Init /\ [][EquivocationRunNext]_vars

InitGossip ==
    /\ VerifierInit /\ LedgerInit /\ AuditIdle /\ SignedInit /\ FoldInit
    /\ EquivocationRunInit /\ GossipInit /\ SignedRunIdle /\ AdversarialInit
    /\ NeighboursIdle /\ FoldRunIdle /\ NoFirstRun /\ TemporalIdle /\ FdseInit

SpecGossip == InitGossip /\ [][GossipNext]_vars

SpecSeededGossip == InitGossip /\ [][SeededGossipNext]_vars

InitSignedRun ==
    /\ VerifierInit /\ LedgerInit /\ AuditIdle /\ SignedInit /\ FoldInit
    /\ EquivocationRunInit /\ GossipIdle /\ SignedRunInit /\ AdversarialInit
    /\ NeighboursIdle /\ FoldRunIdle /\ NoFirstRun /\ TemporalIdle /\ FdseInit

SpecSignedRun == InitSignedRun /\ [][SignedRunNext]_vars

SpecAdversarial == Init /\ [][AdversarialNext]_vars

InitNeighbours ==
    /\ VerifierInit /\ LedgerInit /\ AuditIdle /\ SignedInit /\ FoldInit
    /\ EquivocationRunInit /\ GossipIdle /\ SignedRunIdle /\ AdversarialInit
    /\ NeighboursInit /\ FoldRunIdle /\ NoFirstRun /\ TemporalIdle /\ FdseInit

SpecNeighbours == InitNeighbours /\ [][NeighboursNext]_vars

InitFoldRun ==
    /\ VerifierInit /\ LedgerInit /\ AuditIdle /\ SignedInit /\ FoldInit
    /\ EquivocationRunInit /\ GossipIdle /\ SignedRunIdle /\ AdversarialInit
    /\ NeighboursIdle /\ FoldRunInit /\ NoFirstRun /\ TemporalIdle /\ FdseInit

SpecFoldRun == InitFoldRun /\ [][FoldRunNext]_vars

InitTemporal ==
    /\ VerifierInit /\ LedgerInit /\ AuditIdle /\ SignedInit /\ FoldInit
    /\ EquivocationRunInit /\ GossipIdle /\ SignedRunIdle /\ AdversarialInit
    /\ NeighboursIdle /\ FoldRunIdle /\ NoFirstRun /\ TemporalInit /\ FdseInit

SpecTemporal == InitTemporal /\ [][TemporalNext]_vars

SpecFdse == Init /\ [][FdseNext]_vars

(***************************************************************************)
(* Claims about the equivocation verifier                                  *)
(***************************************************************************)

\* Indices of the observe calls that presented key k, in call order.
CallsOfKey(k) == { i \in 1..Len(vlog) : VKey(vlog[i].c) = k }

FirstCallOfKey(k) == CHOOSE i \in CallsOfKey(k) : \A j \in CallsOfKey(k) : i <= j

ObservedKeys == { VKey(vlog[i].c) : i \in 1..Len(vlog) }

\* C1: every observe call whose key (epoch, parent_root) was already recorded
\* with a state root different from the commitment's returns
\* (True, c.epoch, the label of this call); in particular the second
\* observation of a key whose first two observations carry distinct state
\* roots reports the equivocation.
C1_ConflictingObserveReported ==
    /\ \A i \in 1..Len(vlog) :
          LET r == vlog[i] IN
          (/\ VKey(r.c) \in DOMAIN r.before
           /\ r.before[VKey(r.c)][1] # r.c.state_root)
             => r.ret = <<TRUE, r.c.epoch, r.branch_name>>
    /\ \A i \in 1..Len(vlog), j \in 1..Len(vlog) :
          (/\ i < j
           /\ VKey(vlog[i].c) = VKey(vlog[j].c)
           /\ CallsOfKey(VKey(vlog[i].c)) \cap (1..j) = {i, j}
           /\ vlog[i].c.state_root # vlog[j].c.state_root)
             => vlog[j].ret = <<TRUE, vlog[j].c.epoch, vlog[j].branch_name>>

\* C1 witness: the latest call was the second observation of its key, carried
\* a state root different from the first one and was reported.
C1_Witness ==
    /\ Len(vlog) >= 2
    /\ \E i \in 1..(Len(vlog) - 1) :
          /\ CallsOfKey(VKey(vcall.c)) = {i, Len(vlog)}
          /\ vlog[i].c.state_root # vcall.c.state_root
    /\ vret = <<TRUE, vcall.c.epoch, vcall.branch_name>>

\* C2: the state root recorded in seen for a key is the state root of the
\* first observation of that key; every observed key is recorded, so one
\* state root at most is ever recorded per key.
C2_FirstStateRootRetained ==
    /\ DOMAIN seen = ObservedKeys
    /\ \A k \in DOMAIN seen : seen[k][1] = vlog[FirstCallOfKey(k)].c.state_root

\* C2 witness: a key was observed again with a conflicting state root and the
\* recorded root is still the first one.
C2_Witness ==
    \E k \in DOMAIN seen :
       /\ \E j \in CallsOfKey(k) : vlog[j].c.state_root # seen[k][1]
       /\ seen[k][1] = vlog[FirstCallOfKey(k)].c.state_root

(***************************************************************************)
(* Claims about the epoch ledger                                           *)
(***************************************************************************)

\* The step is a counted ledger call (add_epoch or try_late_injection).
CountedLedgerCall == ledger'.verifier_ops = ledger.verifier_ops + 1

InjectionCall == CountedLedgerCall /\ lcall'.op = "try_late_injection"

\* C3: try_late_injection(epoch, parent) returns False and leaves the node map
\* unchanged exactly when parent is present and finalized at the call; in every
\* other case it inserts the unfinalized node {epoch, parent, H(epoch, parent)}
\* and returns True; it always returns a boolean.
C3_LateInjectionRule ==
    [][InjectionCall =>
        LET e == lcall'.epoch
            p == lcall'.parent
        IN /\ lret' \in BOOLEAN
           /\ (lret' = FALSE) <=> (p \in DOMAIN ledger.nodes /\ ledger.nodes[p].finalized)
           /\ (lret' = FALSE) => (ledger'.nodes = ledger.nodes /\ ledger'.order = ledger.order)
           /\ (lret' = TRUE) =>
                 /\ DOMAIN ledger'.nodes = DOMAIN ledger.nodes \cup {e}
                 /\ ledger'.nodes[e] = [epoch |-> e, parent |-> p, root |-> H(e, p),
                                        finalized |-> FALSE]
                 /\ \A x \in DOMAIN ledger.nodes \ {e} : ledger'.nodes[x] = ledger.nodes[x]
    ]_vars

\* C3 witness: an injection under a present, finalized parent was rejected and
\* no node was inserted for its epoch.
C3_Witness ==
    /\ lcall.op = "try_late_injection"
    /\ lret = FALSE
    /\ lcall.parent \in FinalizedEpochs(ledger)
    /\ lcall.epoch \notin DOMAIN ledger.nodes

\* C4 (finality irreversibility, P2): once finalize_up_to(e) has been called
\* and has finalized the node of e, every later try_late_injection(e', e)
\* returns False.
C4_InjectionUnderFinalizedRejected ==
    [][(InjectionCall /\ lcall'.parent \in finalize_called \cap was_finalized)
          => lret' = FALSE]_vars

\* C5 (I2): once the node of epoch e is finalized, no later add_epoch or
\* try_late_injection creates or alters a node whose parent is e.
C5_NoNewAncestryUnderFinalized ==
    [][CountedLedgerCall =>
        \A e \in was_finalized :
           \A x \in DOMAIN ledger'.nodes :
              ledger'.nodes[x].parent = e
                 => (x \in DOMAIN ledger.nodes /\ ledger.nodes[x] = ledger'.nodes[x])
    ]_vars

\* C6 (append-only): a node once inserted is never removed or replaced by a
\* different node, and a finalized node never becomes unfinalized.
C6_AppendOnly ==
    [][\A x \in DOMAIN ledger.nodes :
          /\ x \in DOMAIN ledger'.nodes
          /\ ledger'.nodes[x].epoch = ledger.nodes[x].epoch
          /\ ledger'.nodes[x].parent = ledger.nodes[x].parent
          /\ ledger'.nodes[x].root = ledger.nodes[x].root
          /\ ledger.nodes[x].finalized => ledger'.nodes[x].finalized
    ]_vars

(***************************************************************************)
(* Claims about the finality audit run                                     *)
(***************************************************************************)

\* C7 (Scenario A): after the honest build the late injection is rejected for
\* every target_parent in 0..MAX_EPOCHS-FINALITY_WINDOW-1: safety_ok is True,
\* detection_epoch is MAX_EPOCHS + ADVERSARIAL_DELAY, the delayed epoch has no
\* node, and main raises exactly when the injection was accepted.
C7_ScenarioA ==
    /\ apc \in {"main", "done"} =>
          /\ lret = FALSE
          /\ aresult.safety_ok = TRUE
          /\ aresult.detection_epoch = MAX_EPOCHS + ADVERSARIAL_DELAY
          /\ aresult.rejected_parent = lcall.parent
          /\ (MAX_EPOCHS + ADVERSARIAL_DELAY) \notin DOMAIN ledger.nodes
    /\ apc = "done" => ((araised = "FINALITY VIOLATION DETECTED") <=> (lret = TRUE))
    /\ apc = "done" => araised \in {"none", "FINALITY VIOLATION DETECTED"}

\* C7 witness: the run is over, the injection aimed at the newest finalized
\* epoch, and main returned without raising.
C7_Witness ==
    /\ apc = "done"
    /\ lcall.op = "try_late_injection"
    /\ lcall.parent = MAX_EPOCHS - FINALITY_WINDOW - 1
    /\ DOMAIN ledger.nodes = 0..(MAX_EPOCHS - 1)
    /\ araised = "none"

(***************************************************************************)
(* Claims about the signed replay / equivocation detector                  *)
(***************************************************************************)

\* The step is one delivery at zero delay; s_last' holds its frame and outcome.
DeliveryStep == s_verifier_ops' = s_verifier_ops + 1

\* Every frame identity has been accepted once at most, and seen_frames holds
\* exactly the accepted identities.
AcceptedOnce ==
    /\ DOMAIN s_accepts = seen_frames
    /\ \A id \in DOMAIN s_accepts : s_accepts[id] = 1

\* C8 (replay uniqueness, P4/I4): a delivered frame whose identity
\* (epoch, state, signature) has already been accepted is rejected as replay:
\* replay_detected is set, nothing is recorded, it is neither accepted nor
\* classified as equivocation; so each identity is accepted once at most.
C8_ReplayRejected ==
    [][/\ (DeliveryStep /\ FrameId(s_last'.frame) \in seen_frames) =>
            /\ s_last'.outcome = "replay"
            /\ replay_detected' = TRUE
            /\ s_raised' = "none"
            /\ UNCHANGED <<seen_frames, seen_epochs, equivocation_detected,
                           detection_epoch, s_accepts>>
       /\ AcceptedOnce'
    ]_vars

\* C8 witness: an accepted frame came again and was rejected as replay, while
\* no equivocation has been flagged.
C8_Witness ==
    /\ s_last.outcome = "replay"
    /\ replay_detected
    /\ ~equivocation_detected
    /\ FrameId(s_last.frame) \in seen_frames
    /\ s_accepts[FrameId(s_last.frame)] = 1

\* C9 (signed equivocation): a delivered frame that passed the signature check,
\* is not a replay and whose epoch has a recorded state with a different value is
\* rejected as equivocation, and seen_frames and seen_epochs do not change on
\* that rejection; the state recorded for an epoch never changes once set.
C9_EquivocationRejected ==
    [][/\ (/\ DeliveryStep
           /\ s_last'.frame.signature.msg
                 = canonical_message(s_last'.frame.epoch, s_last'.frame.state)
           /\ FrameId(s_last'.frame) \notin seen_frames
           /\ s_last'.frame.epoch \in DOMAIN seen_epochs
           /\ seen_epochs[s_last'.frame.epoch] # s_last'.frame.state) =>
            /\ s_last'.outcome = "equivocation"
            /\ equivocation_detected' = TRUE
            /\ detection_epoch' = s_epoch
            /\ UNCHANGED <<seen_frames, seen_epochs>>
       /\ \A e \in DOMAIN seen_epochs :
            /\ e \in DOMAIN seen_epochs'
            /\ seen_epochs'[e] = seen_epochs[e]
    ]_vars

\* C9 witness: a validly signed frame carrying a second state for a recorded
\* epoch was rejected as equivocation and the recorded state is still the first.
C9_Witness ==
    /\ s_last.outcome = "equivocation"
    /\ equivocation_detected
    /\ s_last.frame.epoch \in DOMAIN seen_epochs
    /\ seen_epochs[s_last.frame.epoch] # s_last.frame.state
    /\ FrameId(s_last.frame) \notin seen_frames

\* C10 (signature failure is fatal and distinct): when the signature of a
\* delivered frame does not verify, the run aborts with the signature-failure
\* error before the replay and equivocation tests: nothing is recorded, neither
\* flag changes, and no step follows the abort.
C10_SignatureFailureFatal ==
    [][/\ (/\ DeliveryStep
           /\ s_last'.frame.signature.msg
                 # canonical_message(s_last'.frame.epoch, s_last'.frame.state)) =>
            /\ s_last'.outcome = "signature_failure"
            /\ s_raised' = "SIGNATURE VERIFICATION FAILURE"
            /\ UNCHANGED <<seen_frames, seen_epochs, replay_detected,
                           equivocation_detected, detection_epoch>>
       /\ s_raised = "none"
       /\ (s_raised' # "none") => s_last'.outcome = "signature_failure"
    ]_vars

\* C10 witness: the run aborted on a badly signed frame whose epoch has a
\* different recorded state, and no equivocation or replay was flagged.
C10_Witness ==
    /\ s_raised = "SIGNATURE VERIFICATION FAILURE"
    /\ s_last.outcome = "signature_failure"
    /\ s_last.frame.epoch \in DOMAIN seen_epochs
    /\ seen_epochs[s_last.frame.epoch] # s_last.frame.state
    /\ ~equivocation_detected
    /\ ~replay_detected
    /\ FrameId(s_last.frame) \notin seen_frames

(***************************************************************************)
(* Claims about the folding divergence detector                            *)
(***************************************************************************)

AbsInt(i) == IF i < 0 THEN 0 - i ELSE i

\* The divergent iteration has run: witness_B differed from witness_A by
\* f_div.delta at step f_div.depth and at no other step.
DivergentStepDone == f_div.depth # None

C12_NeverFiresEarlier ==
    /\ ~DivergentStepDone =>
          /\ state_A.accumulator = state_B.accumulator
          /\ ~f_detected
          /\ f_detection_depth = -1
    /\ f_detected => (DivergentStepDone /\ f_detection_depth >= f_div.depth)

\* C12 witness: the whole run was folded over identical non-zero witnesses and
\* nothing was detected.
C12_Witness ==
    /\ f_depth = MaxFoldDepth
    /\ ~DivergentStepDone
    /\ state_A.accumulator.n # 0
    /\ state_A.accumulator = state_B.accumulator
    /\ ~f_detected

(***************************************************************************)
(* Claims about the equivocation audit run                                 *)
(***************************************************************************)

\* C13 as stated (Scenario B): whatever the adversarial delta, equivocation is
\* detected at epoch 1, not later, with exactly 2 verifier operations.
C13_DetectedAtEpochOne ==
    er_epoch >= 1 =>
        /\ er_result.equivocation_detected
        /\ er_result.detection_epoch = 1
        /\ ops = 2

(***************************************************************************)
(* Claims about the gossip simulation                                      *)
(***************************************************************************)

\* C14 as stated (Scenario C): whatever the placement, the losses and the
\* delays, the run ends with equivocation_detected = True and
\* equivocation_epoch equal to the round of the injection.
C14_DetectedAtInjectionRound ==
    g_pc = "done" =>
        /\ g_equivocation_detected
        /\ g_equivocation_epoch = InjectRound

(***************************************************************************)
(* Claims about the signed audit run                                       *)
(***************************************************************************)

\* C15: whatever delays the frames are given, the run ends with
\* equivocation_detected and replay_detected both True, and neither
\* 'SIGNED EQUIVOCATION NOT DETECTED' nor 'REPLAY NOT DETECTED' is raised.
C15_BothDetectedAtEnd ==
    r_pc = "done" =>
        /\ equivocation_detected
        /\ replay_detected
        /\ s_raised = "none"

\* C15 witness: the run is over, the second of the two frames of the forge
\* epoch was admitted after the largest delay and rejected as equivocation, and
\* the replayed frame was admitted and rejected as replay.
C15_Witness ==
    /\ r_pc = "done"
    /\ s_epoch = RunEpochs
    /\ equivocation_detected
    /\ replay_detected
    /\ detection_epoch = RunForgeEpoch + RunMaxDelay
    /\ r_count[<<RunReplayEpoch, "replay">>] = 1

\* The loop epochs whose delivery phase is over.
PhasesDone == s_epoch

\* C16: a frame appended in loop epoch e with delay d is admitted exactly once,
\* in loop epoch e + d: the frames admitted in a delivery phase are those due in
\* its epoch, a frame still in the inbox is due later, has not been admitted and
\* carries the delay that remains, a frame no longer in the inbox has been
\* admitted once, and at the end of the run the inbox holds exactly the frames
\* with e + d >= EPOCHS.
C16_AdmittedOnceWhenDue ==
    r_pc # "idle" =>
        /\ \A i \in 1 .. Len(r_now) :
              /\ r_now[i].enq + r_now[i].delay0 = r_now[i].epoch
              /\ r_now[i].epoch = PhasesDone - 1
        /\ \A i \in 1 .. Len(s_inbox) :
              /\ s_inbox[i].enq + s_inbox[i].delay0 >= PhasesDone
              /\ s_inbox[i].delay = s_inbox[i].enq + s_inbox[i].delay0 - PhasesDone
              /\ r_count[EntryId(s_inbox[i])] = 0
        /\ \A id \in DOMAIN r_count :
              IF \E i \in 1 .. Len(s_inbox) : EntryId(s_inbox[i]) = id
              THEN r_count[id] = 0
              ELSE r_count[id] = 1
        /\ r_pc \in {"end", "done"} =>
              \A i \in 1 .. Len(s_inbox) : s_inbox[i].enq + s_inbox[i].delay0 >= RunEpochs

\* C16 witness: the run is over, a frame appended with a positive delay was
\* admitted in the last delivery phase, and a frame due after the last epoch is
\* still in the inbox, never admitted.
C16_Witness ==
    /\ r_pc = "done"
    /\ \E i \in 1 .. Len(r_now) :
          /\ r_now[i].delay0 > 0
          /\ r_now[i].epoch = r_now[i].enq + r_now[i].delay0
          /\ r_count[r_now[i].id] = 1
    /\ \E i \in 1 .. Len(s_inbox) :
          /\ s_inbox[i].enq + s_inbox[i].delay0 >= RunEpochs
          /\ r_count[EntryId(s_inbox[i])] = 0

\* The applications of message m recorded in the log.
Applications(m) ==
    {i \in 1 .. Len(g_log) :
        /\ g_log[i].receiver = m.receiver
        /\ g_log[i].sender = m.sender
        /\ g_log[i].sent = m.sent}

\* The entries of message m in the inbox of its receiver.
Pending(m) ==
    {i \in 1 .. Len(nodes[m.receiver].inbox) :
        /\ nodes[m.receiver].inbox[i].sender = m.sender
        /\ nodes[m.receiver].inbox[i].sent = m.sent}

\* C17: a message appended in round r with delay d is applied exactly once, in
\* round r + d: until the receive phase of that round it sits in the inbox of
\* its receiver with the delay r + d minus the number of receive phases over,
\* from then on it is in the log once, with round r + d, and no longer in the
\* inbox; a message with r + d >= GOSSIP_STEPS is never applied.
C17_AppliedOnceWhenDue ==
    \A m \in g_sent :
        LET due == m.sent + m.delay0
        IN IF due < g_epoch
           THEN /\ Cardinality(Applications(m)) = 1
                /\ \A i \in Applications(m) :
                      g_log[i].epoch = due /\ g_log[i].delay0 = m.delay0
                /\ Pending(m) = {}
           ELSE /\ Applications(m) = {}
                /\ Cardinality(Pending(m)) = 1
                /\ \A i \in Pending(m) :
                      nodes[m.receiver].inbox[i].delay = due - g_epoch

\* C17 witness: the run is over; a message appended with delay 0 was applied in
\* the round of its appending, one appended with a positive delay was applied
\* that many rounds later, and one due after the last round is still in an
\* inbox.
C17_Witness ==
    /\ g_pc = "done"
    /\ \E i \in 1 .. Len(g_log) : g_log[i].delay0 = 0 /\ g_log[i].epoch = g_log[i].sent
    /\ \E i \in 1 .. Len(g_log) :
          g_log[i].delay0 > 0 /\ g_log[i].epoch = g_log[i].sent + g_log[i].delay0
    /\ \E m \in g_sent :
          /\ m.sent + m.delay0 >= MaxGossipSteps
          /\ Pending(m) # {}
          /\ Applications(m) = {}

\* C18 as stated: a delivery is flagged only against a value accepted earlier
\* from the same sender: flagged deliveries follow a delivery, to the same
\* receiver from the same sender, of a different value.
C18_FlagOnlyAgainstSameSender ==
    \A i \in 1 .. Len(g_log) :
        g_log[i].flagged =>
            \E j \in 1 .. (i - 1) :
                /\ g_log[j].receiver = g_log[i].receiver
                /\ g_log[j].sender = g_log[i].sender
                /\ g_log[j].value # g_log[i].value

(***************************************************************************)
(* Claims about the operation counters                                     *)
(***************************************************************************)

\* A step of the ledger: a call that changed the ledger or differs from the
\* call before it.
LedgerStep == ledger' # ledger \/ lcall' # lcall

\* add_epoch and try_late_injection add 1 to verifier_ops, finalize_up_to adds
\* nothing.
LedgerCallCounted ==
    LedgerStep =>
        IF lcall'.op \in {"add_epoch", "try_late_injection"}
        THEN ledger'.verifier_ops = ledger.verifier_ops + 1
        ELSE ledger'.verifier_ops = ledger.verifier_ops

\* C19 (P5): EquivocationVerifier.ops is the number of observe calls, each
\* engine's verifier_ops is the number of its fold calls, and every add_epoch
\* and try_late_injection call adds exactly 1 to EpochLedger.verifier_ops while
\* finalize_up_to adds nothing, whatever the calls return and however long the
\* history is.
C19_OpsLinearity ==
    /\ [](/\ ops = Len(vlog)
          /\ engine_A.verifier_ops = f_depth
          /\ engine_B.verifier_ops = f_depth)
    /\ [][LedgerCallCounted]_vars

\* C19 witness: a detecting observe call after a first one, and a rejected
\* injection after an add_epoch and a finalize_up_to; both counters stand at 2.
C19_Witness ==
    /\ ops = 2
    /\ vret = <<TRUE, 0, "Branch_B">>
    /\ lcall.op = "try_late_injection"
    /\ lret = FALSE
    /\ ledger.verifier_ops = 2
    /\ finalize_called # {}

\* C20: calling finalize_up_to(e) twice in a row leaves the ledger (flags,
\* final_root, verifier_ops, node map) that a single call leaves, for every
\* reachable ledger and every epoch e.
C20_FinalizeIdempotent ==
    \A e \in LEpochs :
        FinalizeUpTo(FinalizeUpTo(ledger, e), e) = FinalizeUpTo(ledger, e)

\* C20 witness: finalize_up_to has just been called on a ledger of two nodes
\* inserted in descending order, it finalized a node and set final_root, and
\* the same call again leaves the ledger as it is.
C20_Witness ==
    /\ lcall.op = "finalize_up_to"
    /\ ledger.order = <<1, 0>>
    /\ ledger.final_root # None
    /\ \E e \in DOMAIN ledger.nodes : ledger.nodes[e].finalized
    /\ FinalizeUpTo(ledger, lcall.epoch) = ledger

(***************************************************************************)
(* Claims about finalize_up_to                                             *)
(***************************************************************************)

\* The epochs present in ledger L that are at most epoch.
EpochsUpTo(L, epoch) == {e \in DOMAIN L.nodes : e <= epoch}

\* The greatest element of a non-empty set of epochs.
Greatest(S) == CHOOSE x \in S : \A y \in S : y <= x

\* C21 as stated: after finalize_up_to(e) every node with epoch <= e is
\* finalized and final_root is the root of the node with the greatest epoch
\* <= e among the nodes present, whatever the order of insertion and the
\* earlier finalize_up_to calls.
C21_FinalRootOfGreatestEpoch ==
    lcall.op = "finalize_up_to" =>
        /\ \A e \in EpochsUpTo(ledger, lcall.epoch) : ledger.nodes[e].finalized
        /\ EpochsUpTo(ledger, lcall.epoch) # {} =>
              ledger.final_root =
                  ledger.nodes[Greatest(EpochsUpTo(ledger, lcall.epoch))].root

\* What a finalize_up_to(epoch) step may change, ledger L becoming M.
FinalizeFrame(L, M, epoch) ==
    /\ DOMAIN M.nodes = DOMAIN L.nodes
    /\ M.order = L.order
    /\ M.verifier_ops = L.verifier_ops
    /\ \A e \in DOMAIN L.nodes :
          /\ M.nodes[e].epoch = L.nodes[e].epoch
          /\ M.nodes[e].parent = L.nodes[e].parent
          /\ M.nodes[e].root = L.nodes[e].root
          /\ L.nodes[e].finalized => M.nodes[e].finalized
          /\ (M.nodes[e].finalized /\ ~L.nodes[e].finalized) => e <= epoch
    /\ EpochsUpTo(L, epoch) = {} => M = L

\* C30: a finalize_up_to(e) call, also with e below the argument of an earlier
\* call, changes only finalized flags, from false to true and for nodes with
\* epoch <= e, and final_root; no flag is cleared, no node is added, removed or
\* altered, verifier_ops stays, and without a node of epoch <= e nothing
\* changes.
C30_FinalizeFrame ==
    [][lcall'.op = "finalize_up_to" => FinalizeFrame(ledger, ledger', lcall'.epoch)]_vars

\* C30 witness: finalize_up_to(0) has been called after finalize_up_to(1); the
\* node of epoch 1 is still finalized and final_root is the root of epoch 0.
C30_Witness ==
    /\ lcall.op = "finalize_up_to"
    /\ lcall.epoch = 0
    /\ 1 \in finalize_called
    /\ DOMAIN ledger.nodes = {0, 1}
    /\ ledger.nodes[1].finalized
    /\ ledger.nodes[0].finalized
    /\ ledger.final_root = ledger.nodes[0].root

(***************************************************************************)
(* Claims about the adversarial scheduling audit                           *)
(***************************************************************************)

\* The list a is b with some items removed, the others in the order of b.
RECURSIVE IsSubseq(_, _)
IsSubseq(a, b) ==
    IF a = <<>> THEN TRUE
    ELSE IF b = <<>> THEN FALSE
    ELSE IF Head(a) = Head(b) THEN IsSubseq(Tail(a), Tail(b))
    ELSE IsSubseq(a, Tail(b))

\* The block of MAX_DELAY consecutive submissions that holds index i.
BlockOf(i) == i \div MAX_DELAY

\* Non-stale frames are block after block, reversed inside a block, and every
\* stale copy comes after every non-stale frame.
ScheduleOrder(s) ==
    \A i, j \in 1..Len(s) :
        /\ (i < j /\ ~s[i].stale /\ ~s[j].stale) =>
               \/ BlockOf(s[i].index) < BlockOf(s[j].index)
               \/ /\ BlockOf(s[i].index) = BlockOf(s[j].index)
                  /\ s[i].index > s[j].index
        /\ (s[i].stale /\ ~s[j].stale) => j < i

\* C22: the list returned by schedule() is ordered by blocks of MAX_DELAY frames
\* in submission order, each block reversed, with the stale copies after every
\* non-stale frame; before the drops every submitted frame is present, and the
\* drops only remove items, keeping the order of the rest.
C22_ScheduleOrder ==
    adv_pc # "submit" =>
        /\ ScheduleOrder(adv_full)
        /\ {f \in {adv_full[i] : i \in 1..Len(adv_full)} : ~f.stale}
               = {buffer[i] : i \in 1..Len(buffer)}
        /\ IsSubseq(scheduled, adv_full)
        /\ ScheduleOrder(scheduled)

\* C22 witness: three frames were submitted, the frame of index 2 was dropped,
\* the first block is delivered reversed (1 before 0), the stale copy is last.
C22_Witness ==
    /\ adv_pc = "inject"
    /\ Len(buffer) = 3
    /\ Len(scheduled) = 3
    /\ scheduled[1].index = 1 /\ ~scheduled[1].stale
    /\ scheduled[2].index = 0 /\ ~scheduled[2].stale
    /\ scheduled[3].stale

\* The positions of list s that hold a frame of index i with the given stale flag.
Positions(s, i, stale) ==
    {p \in 1..Len(s) : s[p].index = i /\ s[p].stale = stale}

C24_InjectKeepsAll ==
    adv_pc \in {"process", "end", "done"} =>
        /\ Len(corrupted) = Len(scheduled)
        /\ \A p \in 1..Len(scheduled) :
              /\ scheduled[p].valid
              /\ corrupted[p].index = scheduled[p].index
              /\ corrupted[p].stale = scheduled[p].stale
              /\ corrupted[p].valid => corrupted[p] = scheduled[p]
        /\ Cardinality({p \in 1..Len(corrupted) : ~corrupted[p].valid})
               = (FaultPercent * Len(scheduled)) \div 100
        /\ adv_delivered = SubSeq(corrupted, 1, adv_i)
        /\ adv_pc = "done" => adv_delivered = corrupted

\* C24 witness: the run is over, three frames were delivered, the second of them
\* marked invalid by inject().
C24_Witness ==
    /\ adv_pc = "done"
    /\ Len(corrupted) = 3
    /\ ~corrupted[2].valid
    /\ corrupted[1].valid /\ corrupted[3].valid
    /\ Len(adv_delivered) = 3

\* What Aggregator.process(frame) does to aggregator a, giving b.
ProcessEffect(a, b, frame) ==
    /\ b.verifier_ops = a.verifier_ops + 1
    /\ ~frame.valid => b.state = a.state /\ b.residuals = a.residuals
    /\ frame.valid =>
          /\ 10 * b.state = 9 * a.state + frame.value
          /\ Len(b.residuals) = Len(a.residuals) + 1
          /\ SubSeq(b.residuals, 1, Len(a.residuals)) = a.residuals
          /\ b.residuals[Len(b.residuals)] = AbsInt(b.state - a.state)

\* C25: Aggregator.process on an invalid frame adds one to verifier_ops and
\* leaves state and residuals alone; on a valid frame it adds one to
\* verifier_ops, sets state to 0.9 * state + 0.1 * value and appends the one
\* residual |state after - state before|.
C25_ProcessEffect ==
    [][adv_delivered' # adv_delivered =>
          ProcessEffect(agg, agg', adv_delivered'[Len(adv_delivered')])]_vars

\* C25 witness: an invalid frame and then two valid ones were processed: three
\* verifier operations, two residuals.
C25_Witness ==
    /\ Len(adv_delivered) = 3
    /\ ~adv_delivered[1].valid
    /\ agg.verifier_ops = 3
    /\ Len(agg.residuals) = 2
    /\ agg.state # 0

\* The number of valid frames among the first k delivered ones.
RECURSIVE ValidAmong(_, _)
ValidAmong(s, k) ==
    IF k = 0 THEN 0
    ELSE ValidAmong(s, k - 1) + (IF s[k].valid THEN 1 ELSE 0)

\* The loop indices of the valid delivered frames whose residual is below the
\* bound.
RecoverySteps ==
    {i \in 0..(Len(adv_delivered) - 1) :
        /\ adv_delivered[i + 1].valid
        /\ agg.residuals[ValidAmong(adv_delivered, i + 1)] < ADV_RESIDUAL_BOUND}

\* C26: epochs_to_recover is the smallest loop index of a valid delivered frame
\* whose residual is below RESIDUAL_BOUND, and the number of delivered frames
\* when there is none; safety_ok holds exactly when it is at most
\* MAX_RECOVERY_EPOCHS.
C26_EpochsToRecover ==
    adv_pc = "done" =>
        /\ adv_result.epochs_to_recover =
               IF RecoverySteps = {} THEN Len(adv_delivered)
               ELSE CHOOSE i \in RecoverySteps : \A j \in RecoverySteps : i <= j
        /\ adv_result.safety_ok <=>
               adv_result.epochs_to_recover <= MAX_RECOVERY_EPOCHS

\* C26 witness: the first delivered frame is invalid, the second leaves a
\* residual above the bound, the third one below it: recovery at index 2, later
\* than MAX_RECOVERY_EPOCHS.
C26_Witness ==
    /\ adv_pc = "done"
    /\ adv_result.epochs_to_recover = 2
    /\ ~adv_result.safety_ok
    /\ Len(adv_delivered) = 3
    /\ ~adv_delivered[1].valid

(***************************************************************************)
(* Claims about the hypercube neighbours                                   *)
(***************************************************************************)

\* Bit i of slot n.
BitOf(n, i) == (n \div Pow2(i)) % 2

\* The coordinates below dim in which slots a and b differ.
DifferingBits(a, b, dim) == {i \in 0 .. (dim - 1) : BitOf(a, i) # BitOf(b, i)}

\* The slots listed by a sequence.
SlotsOf(s) == {s[k] : k \in 1 .. Len(s)}

\* C27: for a slot n of the hypercube of dimension Q the neighbour function
\* returns exactly Q pairwise distinct slots of the hypercube, the k-th one
\* differing from n in the one bit of coordinate k, never n itself, and m is a
\* neighbour of n exactly when n is a neighbour of m.
C27_HypercubeNeighbours ==
    nb_result # <<>> =>
        /\ Len(nb_result) = nb_dim
        /\ Cardinality(SlotsOf(nb_result)) = nb_dim
        /\ nb_node \notin SlotsOf(nb_result)
        /\ \A k \in 1 .. nb_dim :
              /\ nb_result[k] \in 0 .. (Pow2(nb_dim) - 1)
              /\ DifferingBits(nb_node, nb_result[k], nb_dim) = {k - 1}
        /\ \A m \in 0 .. (Pow2(nb_dim) - 1) :
              m \in SlotsOf(nb_result)
                  <=> nb_node \in SlotsOf(hamming_neighbors(m, nb_dim))

\* C27 witness: the six neighbours of slot 42 = 101010b of the hypercube of
\* dimension 6.
C27_Witness ==
    /\ nb_dim = 6
    /\ nb_node = 42
    /\ nb_result = <<43, 40, 46, 34, 58, 10>>

(***************************************************************************)
(* Claims about the folding audit runner                                   *)
(***************************************************************************)

\* C29: in run_ivc_folding_equivocation_audit, whatever the honest witnesses,
\* nothing is detected before depth MAX_DEPTH // 2, the divergence injected at
\* that depth is detected in that very iteration, the loop stops there, the
\* result has equivocation_detected = True, detection_depth = MAX_DEPTH // 2 and
\* verifier_ops = 2 * detection_depth, and main does not raise.
C29_DetectedAtInjectionDepth ==
    /\ f_depth < RUN_MAX_DEPTH \div 2 => ~f_detected
    /\ f_depth <= RUN_MAX_DEPTH \div 2
    /\ f_depth = RUN_MAX_DEPTH \div 2 => f_detected
    /\ f_pc = "done" =>
          /\ f_result.equivocation_detected
          /\ f_result.detection_depth = RUN_MAX_DEPTH \div 2
          /\ f_depth = f_result.detection_depth
          /\ f_result.verifier_ops = 2 * f_result.detection_depth
          /\ ~f_raised

\* C29 witness: a run with honest witnesses that are not all zero has ended,
\* detection at depth 4 of 8 after eight folds.
C29_Witness ==
    /\ f_pc = "done"
    /\ f_result.detection_depth = 4
    /\ f_result.verifier_ops = 8
    /\ f_div.depth = 4
    /\ state_A.accumulator # QInt(0)

(***************************************************************************)
(* Claims about seed reproducibility                                       *)
(***************************************************************************)

\* C28 as stated, for the gossip runner: a second run started from the same
\* seed ends with the verdict fields (equivocation_detected, equivocation_epoch,
\* verifier_ops) of the first one.
C28_SameSeedSameVerdict ==
    (g_pc = "done" /\ g_first # <<>>) => GossipVerdict = g_first

(***************************************************************************)
(* Claims about the finality window of the honest build                    *)
(***************************************************************************)

\* C31: during the honest build of run_epoch_finality_audit, after the step for
\* epoch e the ledger holds epochs 0..e, the finalized ones are exactly
\* 0..e-FINALITY_WINDOW (none when e < FINALITY_WINDOW), the FINALITY_WINDOW most
\* recent ones are unfinalized and final_root is the root of epoch
\* e-FINALITY_WINDOW; at the end of the build epochs
\* 0..MAX_EPOCHS-FINALITY_WINDOW-1 are finalized, and the result's verifier_ops
\* is MAX_EPOCHS + 1.
C31_FinalityWindow ==
    /\ (apc \in {"build", "inject"} /\ ae >= 1) =>
          LET e == ae - 1 IN
          /\ DOMAIN ledger.nodes = 0 .. e
          /\ FinalizedEpochs(ledger) = {x \in 0 .. e : x <= e - FINALITY_WINDOW}
          /\ \A x \in 0 .. e : x > e - FINALITY_WINDOW => ~ledger.nodes[x].finalized
          /\ ledger.final_root =
                 IF e >= FINALITY_WINDOW
                 THEN ledger.nodes[e - FINALITY_WINDOW].root ELSE None
    /\ apc = "inject" =>
          FinalizedEpochs(ledger) = 0 .. (MAX_EPOCHS - FINALITY_WINDOW - 1)
    /\ apc \in {"main", "done"} => aresult.verifier_ops = MAX_EPOCHS + 1

\* C31 witness: the step for epoch 19 is done: epoch 11 is the last finalized
\* one, epochs 12..19 are not, final_root is the root of epoch 11.
C31_Witness ==
    /\ apc = "build"
    /\ ae = 20
    /\ ledger.nodes[11].finalized
    /\ ~ledger.nodes[12].finalized
    /\ ledger.final_root = ledger.nodes[11].root

(***************************************************************************)
(* Claims about false positives and the retained mapping of the verifier   *)
(***************************************************************************)

\* The calls before call i that presented the key of call i.
EarlierCalls(i) == {j \in CallsOfKey(VKey(vlog[i].c)) : j < i}

\* C32: observe returns detected = True only if an earlier call presented the
\* same (epoch, parent_root) key with a different state root; the first
\* observation of a key (commitments of one epoch with different parent roots
\* are different keys) and a repeated observation with the recorded state root
\* return (False, None, None).
C32_NoFalsePositive ==
    \A i \in 1 .. Len(vlog) :
        /\ vlog[i].ret[1] =>
               \E j \in EarlierCalls(i) : vlog[j].c.state_root # vlog[i].c.state_root
        /\ EarlierCalls(i) = {} => vlog[i].ret = <<FALSE, None, None>>
        /\ (/\ VKey(vlog[i].c) \in DOMAIN vlog[i].before
            /\ vlog[i].before[VKey(vlog[i].c)][1] = vlog[i].c.state_root)
               => vlog[i].ret = <<FALSE, None, None>>

\* C32 witness: three calls that return (False, None, None): a first
\* observation, the same commitment again from the other branch, and a
\* commitment of the same epoch with another parent root and another state root.
C32_Witness ==
    /\ Len(vlog) = 3
    /\ vlog[2].c = vlog[1].c
    /\ vlog[2].branch_name # vlog[1].branch_name
    /\ vlog[3].c.epoch = vlog[1].c.epoch
    /\ vlog[3].c.parent_root # vlog[1].c.parent_root
    /\ vlog[3].c.state_root # vlog[1].c.state_root
    /\ \A i \in 1 .. 3 : vlog[i].ret = <<FALSE, None, None>>

\* C33 as stated: the (state_root, origin_label) pair stored for a key is the
\* pair of the first observation of that key, whatever was observed later.
C33_FirstPairRetained ==
    \A k \in DOMAIN seen :
        seen[k] = <<vlog[FirstCallOfKey(k)].c.state_root,
                    vlog[FirstCallOfKey(k)].branch_name>>

(***************************************************************************)
(* Claims about the rejected branch of the equivocation audit run          *)
(***************************************************************************)

\* The epochs run so far in which the two branches committed different roots.
DifferingEpochs ==
    {e \in 1 .. er_epoch :
        branch_A.history[e].state_root # branch_B.history[e].state_root}

\* C34: in run_equivocation_audit both branches commit under the same
\* (epoch, parent_root) key in every epoch; equivocation is detected exactly in
\* the first epoch in which branch B's state root differs from branch A's, the
\* offender reported is Branch_B, the loop stops there with
\* verifier_ops = 2 * detection_epoch; when the roots coincide in all MAX_EPOCHS
\* epochs the run ends undetected and main raises EQUIVOCATION NOT DETECTED.
C34_HonestBranchNeverRejected ==
    /\ \A e \in 1 .. er_epoch :
          /\ branch_A.history[e].epoch = e
          /\ branch_B.history[e].epoch = e
          /\ branch_A.history[e].parent_root = branch_B.history[e].parent_root
    /\ er_result.equivocation_detected <=> DifferingEpochs # {}
    /\ er_result.equivocation_detected =>
          /\ DifferingEpochs = {er_epoch}
          /\ er_result.detection_epoch = er_epoch
          /\ er_result.rejected_branch = "Branch_B"
          /\ ops = 2 * er_result.detection_epoch
          /\ er_pc # "loop"
    /\ er_pc = "loop" => er_epoch < EQ_MAX_EPOCHS
    /\ (er_pc # "loop" /\ ~er_result.equivocation_detected) =>
          /\ er_epoch = EQ_MAX_EPOCHS
          /\ ops = 2 * EQ_MAX_EPOCHS
    /\ er_pc = "done" =>
          (er_raised = "EQUIVOCATION NOT DETECTED" <=> ~er_result.equivocation_detected)

\* C34 witness: the roots coincided in epoch 1 and differed in epoch 2: Branch_B
\* was rejected at epoch 2 after four verifier operations, main did not raise.
C34_Witness ==
    /\ er_pc = "done"
    /\ er_epoch = 2
    /\ er_result.equivocation_detected
    /\ er_result.detection_epoch = 2
    /\ er_result.rejected_branch = "Branch_B"
    /\ ops = 4
    /\ er_raised = "none"

(***************************************************************************)
(* Claims about the order of delivery in the forge epoch                   *)
(***************************************************************************)

HonestId == <<RunForgeEpoch, "honest">>
ForgedId == <<RunForgeEpoch, "forged">>

\* The admissions of the entry id in the last delivery phase.
NowOf(id) == {i \in 1 .. Len(r_now) : r_now[i].id = id}

\* The entry id is still waiting in the inbox.
InBox(id) == \E i \in 1 .. Len(s_inbox) : EntryId(s_inbox[i]) = id

\* The entry id was admitted in a delivery phase before the last one.
AdmittedBefore(id) ==
    /\ id \in DOMAIN r_count
    /\ r_count[id] = 1
    /\ NowOf(id) = {}

HonestState == signed_history[RunForgeEpoch].state
ForgedState == signed_history[RunForgeEpoch].state + RunForgeOffset

\* The outcome of the honest and of the forged frame of the forge epoch, by the
\* order in which they are delivered.
ForgeEpochOrder ==
    /\ \A i \in NowOf(ForgedId) :
        IF InBox(HonestId)
        THEN /\ r_now[i].outcome = "accepted"
             /\ seen_epochs[RunForgeEpoch] = ForgedState
        ELSE /\ r_now[i].outcome = "equivocation"
             /\ seen_epochs[RunForgeEpoch] = HonestState
             /\ detection_epoch = RunForgeEpoch + r_now[i].delay0
    /\ \A i \in NowOf(HonestId) :
        IF AdmittedBefore(ForgedId)
        THEN /\ r_now[i].outcome = "equivocation"
             /\ seen_epochs[RunForgeEpoch] = ForgedState
             /\ detection_epoch = RunForgeEpoch + r_now[i].delay0
        ELSE /\ r_now[i].outcome = "accepted"
             /\ seen_epochs[RunForgeEpoch] = HonestState
    /\ \A i \in NowOf(HonestId), j \in NowOf(ForgedId) :
        /\ r_now[i].delay0 = r_now[j].delay0
        /\ i < j
    /\ r_pc = "done" =>
        /\ seen_epochs[RunForgeEpoch] \in {HonestState, ForgedState}
        /\ detection_epoch \in RunForgeEpoch .. (RunForgeEpoch + RunMaxDelay)

\* C35: of the honest and the forged frame of the forge epoch, the one delivered
\* first is accepted and its state is the one recorded for the epoch, the other
\* one is rejected as equivocation: the forged frame wins when its delay is
\* strictly smaller, the honest one when the delays are equal (both are due in
\* the same round and the honest one was appended first) or its delay is
\* smaller; detection_epoch is the forge epoch plus the larger of the two delays
\* and does not change afterwards.
C35_FirstDeliveredWins ==
    /\ []ForgeEpochOrder
    /\ [][detection_epoch # None => detection_epoch' = detection_epoch]_vars

\* C35 witness: the run is over; the forged frame came first, its state is the
\* one recorded for the forge epoch, and the honest frame was rejected when it
\* came with the largest delay.
C35_Witness ==
    /\ r_pc = "done"
    /\ seen_epochs[RunForgeEpoch] = ForgedState
    /\ detection_epoch = RunForgeEpoch + RunMaxDelay
    /\ r_count[HonestId] = 1
    /\ r_count[ForgedId] = 1

(***************************************************************************)
(* Claims about frames rejected as equivocation                            *)
(***************************************************************************)

\* The frame of a frame identity.
FrameOf(id) == SignedFrame(id[1], id[2], id[3])

\* Every frame identity that was rejected as equivocation is not among the seen
\* frames, was never accepted, and would be an equivocation again.
RejectedStaysRejected ==
    \A id \in DOMAIN s_rejects :
        /\ id \notin seen_frames
        /\ id \notin DOMAIN s_accepts
        /\ Outcome(seen_frames, seen_epochs, FrameOf(id)) = "equivocation"

\* C36: a frame rejected as equivocation is not remembered as seen; whenever the
\* identical (epoch, state, signature) triple is delivered again it is classified
\* as equivocation again, never as replay, and it is never accepted, however
\* often it is delivered.
C36_RejectedNotRemembered ==
    /\ []RejectedStaysRejected
    /\ [][(DeliveryStep /\ FrameId(s_last'.frame) \in DOMAIN s_rejects) =>
              /\ s_last'.outcome = "equivocation"
              /\ s_rejects'[FrameId(s_last'.frame)] = s_rejects[FrameId(s_last'.frame)] + 1
              /\ seen_frames' = seen_frames
              /\ seen_epochs' = seen_epochs]_vars

\* C36 witness: the frame delivered last was rejected as equivocation for the
\* second time.
C36_Witness ==
    /\ s_last.outcome = "equivocation"
    /\ s_rejects[FrameId(s_last.frame)] = 2
    /\ FrameId(s_last.frame) \notin seen_frames

(***************************************************************************)
(* Claims about stale frames in the aggregator                             *)
(***************************************************************************)

\* The values of the valid frames of a list, stale or not, in order.
RECURSIVE ValidValues(_)
ValidValues(frames) ==
    IF frames = <<>> THEN <<>>
    ELSE IF Head(frames).valid
         THEN <<Head(frames).value>> \o ValidValues(Tail(frames))
         ELSE ValidValues(Tail(frames))

\* The aggregate state after the values, from the state given.
RECURSIVE Folded(_, _)
Folded(state, values) ==
    IF values = <<>> THEN state
    ELSE Folded(Contract10(state, Head(values)), Tail(values))

\* A value was delivered twice and valid both times: as the original frame and
\* as its stale copy.
TwiceDelivered ==
    \E j, k \in 1 .. Len(adv_delivered) :
        /\ j < k
        /\ adv_delivered[j].index = adv_delivered[k].index
        /\ adv_delivered[j].value = adv_delivered[k].value
        /\ adv_delivered[j].valid /\ adv_delivered[k].valid
        /\ ~adv_delivered[j].stale /\ adv_delivered[k].stale

\* C37: the aggregator does not read the stale flag: the aggregate state is the
\* contraction over the values of all valid delivered frames, stale copies
\* included, with one residual for each of them, so a value whose original and
\* stale copy are both delivered valid is aggregated twice.
C37_StaleAggregated ==
    /\ agg.state = Folded(0, ValidValues(adv_delivered))
    /\ Len(agg.residuals) = Len(ValidValues(adv_delivered))
    /\ agg.verifier_ops = Len(adv_delivered)

\* C37 witness: the run is over, the original and the stale copy of one frame
\* were both delivered valid, and both left a residual.
C37_Witness ==
    /\ adv_pc = "done"
    /\ TwiceDelivered
    /\ Len(agg.residuals) = 2
    /\ Len(adv_delivered) = 3

(***************************************************************************)
(* Claims about flagged values in the gossip simulation                    *)
(***************************************************************************)

\* The log entry i is the latest delivery to its receiver.
LatestOfReceiver(i) ==
    \A j \in (i + 1) .. Len(g_log) : g_log[j].receiver # g_log[i].receiver

\* A value flagged as equivocation leaves the state of its receiver as it was.
FlaggedNotFolded ==
    \A i \in 1 .. Len(g_log) :
        (g_log[i].flagged /\ LatestOfReceiver(i)) =>
            nodes[g_log[i].receiver].state = g_log[i].state_before

\* Once recorded, equivocation_epoch keeps its value.
EquivocationEpochKept ==
    [][g_equivocation_epoch # None => g_equivocation_epoch' = g_equivocation_epoch]_vars

\* C38: a delivered value that its receiver flags as equivocation is not folded
\* into the state of the receiver, and once an equivocation is flagged the
\* recorded equivocation_epoch is not changed by later rounds.
C38_EquivocationNeverAccepted ==
    /\ []FlaggedNotFolded
    /\ EquivocationEpochKept

(***************************************************************************)
(* Claims about the temporal audit                                         *)
(***************************************************************************)

\* The residual of the k-th aggregation, from k alone.
RECURSIVE ResidualAt(_)
ResidualAt(k) == IF k = 1 THEN InitialResidual ELSE Scale08(ResidualAt(k - 1))

\* C39: the residual recorded by the k-th aggregate_epoch depends on k only (1.0,
\* then 0.8 times the one before), whatever was submitted, dropped, delayed or
\* skewed; the residuals are strictly decreasing and a run with max_epochs <= 20
\* passes both assertions, the verifier bound being met exactly up to 20; after
\* each aggregate_epoch the frame buffer is empty and current_epoch is the
\* number of residuals.
C39_ResidualsIgnoreTiming ==
    /\ sim.current_epoch = Len(sim.residuals)
    /\ \A k \in 1 .. Len(sim.residuals) : sim.residuals[k] = ResidualAt(k)
    /\ \A k \in 2 .. Len(sim.residuals) : sim.residuals[k] < sim.residuals[k - 1]
    /\ t_f = 0 => sim.frames = <<>>
    /\ (t_pc = "done" /\ t_params.max_epochs <= 20) => t_raised = "none"
    /\ check_verifier_bound(t_params.max_epochs) <=> t_params.max_epochs <= 20

\* C39 witness: a run of 20 epochs with delay, skew and drops has ended; frames
\* were dropped and reordered on the way, and both assertions passed.
C39_Witness ==
    /\ t_pc = "done"
    /\ t_params.max_epochs = 20
    /\ t_params.delta_delay_ms > 0 /\ t_params.delta_skew_ms > 0
    /\ t_dropped /\ t_reordered
    /\ Len(sim.residuals) = 20
    /\ t_raised = "none"

(***************************************************************************)
(* Claims about the guardian shunt                                         *)
(***************************************************************************)

\* The input of the latest shunt call has a non-zero linear velocity, angular
\* velocity or neural load.
InputMoving ==
    \/ fd_last.s.v_lin # Zero3
    \/ fd_last.s.v_ang # Zero3
    \/ fd_last.s.neural_load # 0

\* The latest shunt call accepted its frame.
FrameAccepted ==
    /\ fd_last.called
    /\ guardian.last_safe = <<Predicted(fd_last.s, fd_last.dt)>>
    /\ guardian.fail_count = 0
    /\ fd_last.ret = Predicted(fd_last.s, fd_last.dt)

\* The latest shunt call rejected its frame.
FrameRejected ==
    /\ fd_last.called
    /\ fd_last.hard_fail
    /\ guardian.fail_count = fd_last.before.fail_count + 1
    /\ guardian.last_safe = fd_last.before.last_safe
    /\ fd_last.ret = IF fd_last.before.last_safe # <<>>
                     THEN fd_last.before.last_safe[1] ELSE clip_state(fd_last.s)

\* C40: shunt accepts a frame only when the Lyapunov value of the input is zero:
\* the predicted state has the Lyapunov value of the input, and every input with
\* a non-zero linear velocity, angular velocity or neural load is a hard fail
\* that increments fail_count, leaves last_safe unchanged and returns last_safe
\* if there is one, else the clipped input.
C40_AcceptsOnlyAtRest ==
    fd_last.called =>
        /\ fd_last.V1 = fd_last.V0
        /\ ~fd_last.hard_fail => (FrameAccepted /\ fd_last.V0 = 0)
        /\ InputMoving => FrameRejected

====
